---------------------------- MODULE Spec2Model ----------------------------
(***************************************************************************)
(* A model of the `list` command of hc-rust: ListArgs::run, get_list and   *)
(* DailyStudyEvents::get_day_val (src/src/list/mod.rs), with get_omer and  *)
(* get_minor_holidays from src/src/main.rs.                                *)
(*                                                                         *)
(* Time.  A civil day is an integer, the proleptic Gregorian day number    *)
(* (day 1 = 0001-01-01, a Monday), and a DateTime<Utc> is a number of      *)
(* hours, 24 * day + hour.  Every event of the program is anchored at      *)
(* 18:00 of the civil day whose evening starts the Hebrew day.             *)
(***************************************************************************)
EXTENDS Integers, Sequences, FiniteSets, TLC

(***************************************************************************)
(* chrono: Utc.ymd(y, m, d).and_hms(h, 0, 0), Duration::days, weekday.     *)
(***************************************************************************)
IsGregLeap(y) == (y % 4 = 0 /\ y % 100 # 0) \/ y % 400 = 0

DaysBeforeMonth(y, m) ==
    LET cum == <<0, 31, 59, 90, 120, 151, 181, 212, 243, 273, 304, 334>>
    IN  cum[m] + (IF m > 2 /\ IsGregLeap(y) THEN 1 ELSE 0)

\* Utc.ymd(y, m, d): the civil day number.
Ymd(y, m, d) ==
    365 * (y - 1) + ((y - 1) \div 4) - ((y - 1) \div 100) + ((y - 1) \div 400)
        + DaysBeforeMonth(y, m) + d

\* .and_hms(h, 0, 0)
AndHms(date, h) == 24 * date + h

\* i + Duration::days(n)
PlusDays(t, n) == t + 24 * n

\* (a - b).num_days(): whole days, truncated toward zero.
NumDays(a, b) == IF a >= b THEN (a - b) \div 24 ELSE 0 - ((b - a) \div 24)

\* DateTime::weekday(): 0 = Sun, 1 = Mon, ..., 5 = Fri, 6 = Sat.
Weekday(t) == (t \div 24) % 7

Fri == 5
Sat == 6

\* DateTime::year(): the civil year of civil day n, searched around the
\* estimate g.
CivilYearNear(n, g) ==
    CHOOSE y \in (g - 1) .. (g + 1) : Ymd(y, 1, 1) <= n /\ n < Ymd(y + 1, 1, 1)

CivilYearOfDay(n) == CivilYearNear(n, ((400 * n) \div 146097) + 1)

CivilYear(t) == CivilYearOfDay(t \div 24)

(***************************************************************************)
(* heca_lib, the calendar collaborator: HebrewYear::new, get_hebrew_date,  *)
(* HebrewDate <-> DateTime<Utc>, is_leap_year, get_holidays.               *)
(***************************************************************************)
\* HebrewYear::new(y) is an error below this year.
FirstValidYear == 3764

ValidYear(y) == y >= FirstValidYear

IsLeapYear(y) == (7 * y + 1) % 19 < 7

\* The months elapsed before year y.
MonthsElapsed(y) ==
    235 * ((y - 1) \div 19) + 12 * ((y - 1) % 19)
        + ((7 * ((y - 1) % 19) + 1) \div 19)

MoladParts(m) == 204 + 793 * (m % 1080)

MoladHours(m) == 5 + 12 * m + 793 * (m \div 1080) + (MoladParts(m) \div 1080)

MoladDay(m) == 1 + 29 * m + (MoladHours(m) \div 24)

MoladPartsOfDay(m) == 1080 * (MoladHours(m) % 24) + (MoladParts(m) % 1080)

\* The last postponement: 1 Tishrei is no Sunday, Wednesday or Friday.
PostponeADU(alt) == IF alt % 7 \in {0, 3, 5} THEN alt + 1 ELSE alt

\* The postponements by the time of the molad.
PostponeMolad(y, day, p) ==
    PostponeADU(IF \/ p >= 19440
                   \/ (day % 7 = 2 /\ p >= 9924 /\ ~IsLeapYear(y))
                   \/ (day % 7 = 1 /\ p >= 16789 /\ IsLeapYear(y - 1))
                THEN day + 1 ELSE day)

RoshHashanahOfMolad(y, m) == PostponeMolad(y, MoladDay(m), MoladPartsOfDay(m))

\* The civil day whose evening starts 1 Tishrei of year y.
RoshHashanahEve(y) == RoshHashanahOfMolad(y, MonthsElapsed(y)) - 1373429

YearLength(y) == RoshHashanahEve(y + 1) - RoshHashanahEve(y)

\* The months of a year of length len in order, each with its length.
MonthsOfLength(leap, len) ==
    << <<"Tishrei", 30>>,
       <<"Cheshvan", IF len % 10 = 5 THEN 30 ELSE 29>>,
       <<"Kislev", IF len % 10 = 3 THEN 29 ELSE 30>>,
       <<"Teves", 29>>, <<"Shvat", 30>> >>
    \o (IF leap THEN << <<"Adar1", 30>>, <<"Adar2", 29>> >>
        ELSE << <<"Adar", 29>> >>)
    \o << <<"Nissan", 30>>, <<"Iyar", 29>>, <<"Sivan", 30>>,
          <<"Tammuz", 29>>, <<"Av", 30>>, <<"Elul", 29>> >>

Months(y) == MonthsOfLength(IsLeapYear(y), YearLength(y))

\* The place of a month among the months ms of a year, 0 when the year has
\* no such month.
MonthIndexIn(ms, month) ==
    IF \E k \in 1 .. Len(ms) : ms[k][1] = month
    THEN CHOOSE k \in 1 .. Len(ms) : ms[k][1] = month
    ELSE 0

RECURSIVE DaysBefore(_, _)
DaysBefore(ms, k) == IF k <= 1 THEN 0 ELSE ms[k - 1][2] + DaysBefore(ms, k - 1)

DayExistsIn(ms, k, day) == k # 0 /\ day >= 1 /\ day <= ms[k][2]

MonthHasDay(ms, month, day) == DayExistsIn(ms, MonthIndexIn(ms, month), day)

\* HebrewYear::get_hebrew_date(month, day) is Ok: the month exists in the
\* year and has that day.
DateExists(y, month, day) == MonthHasDay(Months(y), month, day)

InstantIn(rh, ms, month, day) ==
    AndHms(rh + DaysBefore(ms, MonthIndexIn(ms, month)) + day - 1, 18)

\* The instant (18:00 of the evening before) of an existing Hebrew date.
ToInstant(y, month, day) == InstantIn(RoshHashanahEve(y), Months(y), month, day)

\* The evening a Hebrew day starts: from 18:00 on, the Hebrew day that starts
\* that evening.
EveOf(t) == IF t % 24 >= 18 THEN t \div 24 ELSE (t \div 24) - 1

HebrewYearNear(e, g) ==
    CHOOSE y \in g .. (g + 1) :
        RoshHashanahEve(y) <= e /\ e < RoshHashanahEve(y + 1)

HebrewYearOfEve(e) == HebrewYearNear(e, CivilYearOfDay(e) + 3760)

HebrewYearOf(t) == HebrewYearOfEve(EveOf(t))

RECURSIVE MonthOfDay(_, _, _)
MonthOfDay(ms, k, n) ==
    IF n <= ms[k][2] THEN <<k, n>> ELSE MonthOfDay(ms, k + 1, n - ms[k][2])

HebrewDateIn(y, ms, md) == [year |-> y, month |-> ms[md[1]][1], day |-> md[2]]

HebrewDateInYear(y, ms, e) ==
    HebrewDateIn(y, ms, MonthOfDay(ms, 1, e - RoshHashanahEve(y) + 1))

HebrewDateOfEve(y, e) == HebrewDateInYear(y, Months(y), e)

\* HebrewDate::try_from(instant), when it is Ok.
HebrewDateOf(t) == HebrewDateOfEve(HebrewYearOf(t), EveOf(t))

\* HebrewDate::try_from(instant) is an error for instants before the first
\* valid year.
ConvertibleInstant(t) == EveOf(t) >= RoshHashanahEve(FirstValidYear)

\* A TorahReading value: kind is the TorahReadingType, id the variant's name;
\* n numbers the weekly Parshas of a year (0 for every other reading).
Reading(kind, id, n) == [kind |-> kind, id |-> id, n |-> n]

\* The festival days of year y with their (month, day): the second days
\* SimchasTorah, Pesach8 and Shavuos2 exist only outside Israel.
YomTovDates(location) ==
    << <<"RoshHashanah1", "Tishrei", 1>>, <<"RoshHashanah2", "Tishrei", 2>>,
       <<"YomKippur", "Tishrei", 10>>,
       <<"Sukkos1", "Tishrei", 15>>, <<"Sukkos2", "Tishrei", 16>>,
       <<"Sukkos3", "Tishrei", 17>>, <<"Sukkos4", "Tishrei", 18>>,
       <<"Sukkos5", "Tishrei", 19>>, <<"Sukkos6", "Tishrei", 20>>,
       <<"Sukkos7", "Tishrei", 21>>, <<"ShminiAtzeres", "Tishrei", 22>> >>
    \o (IF location = "Chul" THEN << <<"SimchasTorah", "Tishrei", 23>> >>
        ELSE << >>)
    \o << <<"Pesach1", "Nissan", 15>>, <<"Pesach2", "Nissan", 16>>,
          <<"Pesach3", "Nissan", 17>>, <<"Pesach4", "Nissan", 18>>,
          <<"Pesach5", "Nissan", 19>>, <<"Pesach6", "Nissan", 20>>,
          <<"Pesach7", "Nissan", 21>> >>
    \o (IF location = "Chul" THEN << <<"Pesach8", "Nissan", 22>> >> ELSE << >>)
    \o << <<"Shavuos1", "Sivan", 6>> >>
    \o (IF location = "Chul" THEN << <<"Shavuos2", "Sivan", 7>> >> ELSE << >>)

\* A holiday of get_holidays: its name and its day (as the instant).
Holiday(name, day) == [name |-> name, day |-> day]

YomTovIn(rh, ms, ds) ==
    [k \in 1 .. Len(ds) |->
        Holiday(Reading("YomTov", ds[k][1], 0),
                InstantIn(rh, ms, ds[k][2], ds[k][3]))]

YomTovReadings(y, location) ==
    YomTovIn(RoshHashanahEve(y), Months(y), YomTovDates(location))

\* A fast that falls on Shabbos (its instant on a Friday evening) is observed
\* a day later.
Postponed(t) == IF Weekday(t) = Fri THEN PlusDays(t, 1) ELSE t

\* Taanis Esther on Shabbos is observed on the Thursday before.
Advanced(t) == IF Weekday(t) = Fri THEN PlusDays(t, 0 - 2) ELSE t

\* The observed Tisha B'Av of year y.
NineAvDay(y) == Postponed(ToInstant(y, "Av", 9))

PurimMonth(ms) == IF MonthIndexIn(ms, "Adar2") # 0 THEN "Adar2" ELSE "Adar"

RECURSIVE Flatten(_)
Flatten(ss) == IF ss = << >> THEN << >> ELSE Head(ss) \o Flatten(Tail(ss))

\* Rosh Chodesh of the month at place k: two days when the month before it
\* has 30 days.
RoshChodeshOf(rh, ms, k) ==
    IF ms[k - 1][2] = 30
    THEN << Holiday(Reading("Chol", "RoshChodesh" \o ms[k][1] \o "1", 0),
                    InstantIn(rh, ms, ms[k - 1][1], 30)),
            Holiday(Reading("Chol", "RoshChodesh" \o ms[k][1] \o "2", 0),
                    InstantIn(rh, ms, ms[k][1], 1)) >>
    ELSE << Holiday(Reading("Chol", "RoshChodesh" \o ms[k][1], 0),
                    InstantIn(rh, ms, ms[k][1], 1)) >>

RoshChodeshReadings(rh, ms) ==
    Flatten([j \in 1 .. Len(ms) - 1 |-> RoshChodeshOf(rh, ms, j + 1)])

CholIn(rh, ms, purim_month) ==
    << Holiday(Reading("Chol", "TzomGedalia", 0),
               Postponed(InstantIn(rh, ms, "Tishrei", 3))) >>
    \o RoshChodeshReadings(rh, ms)
    \o [k \in 1 .. 8 |->
          Holiday(Reading("Chol", "Chanukah" \o ToString(k), 0),
                  PlusDays(InstantIn(rh, ms, "Kislev", 25), k - 1))]
    \o << Holiday(Reading("Chol", "TenTeves", 0), InstantIn(rh, ms, "Teves", 10)),
          Holiday(Reading("Chol", "TaanisEsther", 0),
                  Advanced(InstantIn(rh, ms, purim_month, 13))),
          Holiday(Reading("Chol", "Purim", 0), InstantIn(rh, ms, purim_month, 14)),
          Holiday(Reading("Chol", "ShushanPurim", 0),
                  InstantIn(rh, ms, purim_month, 15)),
          Holiday(Reading("Chol", "SeventeenTammuz", 0),
                  Postponed(InstantIn(rh, ms, "Tammuz", 17))),
          Holiday(Reading("Chol", "NineAv", 0),
                  Postponed(InstantIn(rh, ms, "Av", 9))) >>

CholInYear(rh, ms) == CholIn(rh, ms, PurimMonth(ms))

CholReadings(y) == CholInYear(RoshHashanahEve(y), Months(y))

\* The first Friday evening on or after civil day first.
FirstShabbosEve(first) == first + ((Fri + 7 - (first % 7)) % 7)

ShabbosEvesFrom(e0, next) ==
    [k \in 1 .. ((next - 1 - e0) \div 7) + 1 |-> e0 + 7 * (k - 1)]

\* The Friday evenings of year y, in order.
ShabbosEves(y) ==
    ShabbosEvesFrom(FirstShabbosEve(RoshHashanahEve(y)), RoshHashanahEve(y + 1))

DaysOf(hs) == {hs[k].day : k \in 1 .. Len(hs)}

Parshas(free) ==
    [k \in 1 .. Len(free) |->
        Holiday(Reading("Shabbos", "Parsha", k), AndHms(free[k], 18))]

ShabbosNotIn(eves, taken) ==
    Parshas(SelectSeq(eves, LAMBDA e : AndHms(e, 18) \notin taken))

\* The weekly Parshas: one for every Shabbos of the year that is not a
\* festival day at that location.
ShabbosReadings(y, location) ==
    ShabbosNotIn(ShabbosEves(y), DaysOf(YomTovReadings(y, location)))

\* The Shabbos (its Friday-evening instant) on or before instant t.
ShabbosOnOrBefore(t) == PlusDays(t, 0 - ((Weekday(t) + 7 - Fri) % 7))

SpecialParshaIn(rh, ms, purim_month) ==
    << Holiday(Reading("SpecialParsha", "Shekalim", 0),
               ShabbosOnOrBefore(InstantIn(rh, ms, purim_month, 1))),
       Holiday(Reading("SpecialParsha", "Zachor", 0),
               ShabbosOnOrBefore(InstantIn(rh, ms, purim_month, 13))),
       Holiday(Reading("SpecialParsha", "Parah", 0),
               PlusDays(ShabbosOnOrBefore(InstantIn(rh, ms, "Nissan", 1)), 0 - 7)),
       Holiday(Reading("SpecialParsha", "HaChodesh", 0),
               ShabbosOnOrBefore(InstantIn(rh, ms, "Nissan", 1))) >>

SpecialParshaInYear(rh, ms) == SpecialParshaIn(rh, ms, PurimMonth(ms))

SpecialParshaReadings(y) == SpecialParshaInYear(RoshHashanahEve(y), Months(y))

\* HebrewYear::get_holidays(location, types).
GetHolidays(y, location, types) ==
    (IF "YomTov" \in types THEN YomTovReadings(y, location) ELSE << >>)
    \o (IF "Chol" \in types THEN CholReadings(y) ELSE << >>)
    \o (IF "Shabbos" \in types THEN ShabbosReadings(y, location) ELSE << >>)
    \o (IF "SpecialParsha" \in types THEN SpecialParshaReadings(y) ELSE << >>)

(***************************************************************************)
(* zmanim, the sunset collaborator, and the City of a request.             *)
(***************************************************************************)
\* Option<City>: None, or a city with its candle-lighting offset in minutes.
\* In a polar city the sunset lookup fails on some days.
NoCity == [some |-> FALSE, candlelighting_to_sunset |-> 0, polar |-> FALSE]

City(offset, polar) ==
    [some |-> TRUE, candlelighting_to_sunset |-> offset, polar |-> polar]

None == [some |-> FALSE, time |-> 0]

Some(t) == [some |-> TRUE, time |-> t]

\* zmanim::get(&Zmanim::Sunset, ...): the sunset of a civil date as a time in
\* minutes, or None.
Sunset(city, date) ==
    IF city.polar /\ date % 2 = 0
    THEN None
    ELSE Some(1440 * date + 1020 + (date % 120))

(***************************************************************************)
(* DayVal and its three-valued candle_lighting, Option<Option<DateTime>>:  *)
(* None is NotApplicable, Some(None) ApplicableUnknown and Some(Some(t))   *)
(* ApplicableKnown(t).                                                     *)
(***************************************************************************)
NotApplicable == [state |-> "NotApplicable", time |-> 0]

ApplicableUnknown == [state |-> "ApplicableUnknown", time |-> 0]

ApplicableKnown(t) == [state |-> "ApplicableKnown", time |-> t]

Name(tag, kind, id, n) == [tag |-> tag, kind |-> kind, id |-> id, n |-> n]

DayVal(day, name, candle_lighting) ==
    [day |-> day, name |-> name, candle_lighting |-> candle_lighting]

TorahReadingName(r) == Name("TorahReading", r.kind, r.id, r.n)

(***************************************************************************)
(* get_list: the per-year expansion.                                       *)
(***************************************************************************)
FirstDays ==
    {"RoshHashanah1", "YomKippur", "Sukkos1", "ShminiAtzeres", "Pesach1",
     "Pesach7", "Shavuos1"}

SecondDays == {"Sukkos2", "SimchasTorah", "Pesach2", "Pesach8", "Shavuos2"}

\* A variant of is_shabbos that looks at the kind of reading alone.
IsParsha(x) == x.name.kind = "Shabbos"

\* A variant of is_shabbos that looks at the weekday alone, and at Saturday.
IsSaturday(x) == Weekday(x.day) = Sat

\* is_shabbos: the reading is a weekly Parsha or its instant is on a Friday.
IsShabbos(x) == x.name.kind = "Shabbos" \/ Weekday(x.day) = Fri

\* A variant of is_yom_tov that does not look at the location.
IsYomTovAnywhere(x, location) ==
    /\ x.name.kind = "YomTov"
    /\ \/ x.name.id = "RoshHashanah2"
       \/ x.name.id \in FirstDays
       \/ x.name.id \in SecondDays

\* is_yom_tov, by the festival's identity and the location.
IsYomTov(x, location) ==
    /\ x.name.kind = "YomTov"
    /\ \/ x.name.id = "RoshHashanah2"
       \/ x.name.id \in FirstDays
       \/ (location = "Chul" /\ x.name.id \in SecondDays)

\* A variant of light_on_time without the test for Saturday.
LightOnTimeAlsoSaturday(x) ==
    IF x.name.kind = "YomTov" /\ x.name.id \in FirstDays
    THEN TRUE
    ELSE IF Weekday(x.day) = Fri THEN TRUE ELSE x.name.kind = "Shabbos"

\* A variant of light_on_time that treats every festival day as the seven
\* first days.
LightOnTimeEveryFestival(x) ==
    IF x.name.kind = "YomTov"
    THEN Weekday(x.day) # Sat
    ELSE IF Weekday(x.day) = Fri THEN TRUE ELSE x.name.kind = "Shabbos"

\* light_on_time after the three assignments of the closure, in their order.
LightOnTime(x) ==
    IF x.name.kind = "YomTov" /\ x.name.id \in FirstDays
    THEN Weekday(x.day) # Sat
    ELSE IF Weekday(x.day) = Fri THEN TRUE ELSE x.name.kind = "Shabbos"

\* A variant of the subtraction that takes the whole offset off the sunset.
MinutesBeforeWholeOffset(time, city) ==
    IF time.some
    THEN ApplicableKnown(time.time - city.candlelighting_to_sunset)
    ELSE ApplicableUnknown

\* Some(time - Duration::minutes(candlelighting_to_sunset - 1)), or None.
MinutesBefore(time, city) ==
    IF time.some
    THEN ApplicableKnown(time.time - (city.candlelighting_to_sunset - 1))
    ELSE ApplicableUnknown

\* A variant of the candle-lighting computation that does not look at
\* whether a city was given.
CandleLightingAnyCity(x, city) ==
    IF LightOnTime(x)
    THEN MinutesBefore(Sunset(city, x.day \div 24), city)
    ELSE ApplicableUnknown

\* The candle_lighting field of a reading that is on a Shabbos or Yom Tov eve.
CandleLightingTime(x, city) ==
    IF city.some
    THEN IF LightOnTime(x)
         THEN MinutesBefore(Sunset(city, x.day \div 24), city)
         ELSE ApplicableUnknown
    ELSE ApplicableUnknown

\* A variant of the closure that anchors the event at the evening that ends
\* the reading's day instead of the one that begins it.
ReadingDayValAtDayEnd(x, location, city) ==
    IF IsShabbos(x) \/ IsYomTov(x, location)
    THEN DayVal(PlusDays(x.day, 1), TorahReadingName(x.name),
                CandleLightingTime(x, city))
    ELSE DayVal(PlusDays(x.day, 1), TorahReadingName(x.name), NotApplicable)

\* The DayVal of one reading of get_holidays.
ReadingDayVal(x, location, city) ==
    IF IsShabbos(x) \/ IsYomTov(x, location)
    THEN DayVal(x.day, TorahReadingName(x.name), CandleLightingTime(x, city))
    ELSE DayVal(x.day, TorahReadingName(x.name), NotApplicable)

\* A variant of get_omer that counts from the 15th of Nissan itself.
OmerFromPesach(first_day_of_pesach) ==
    [k \in 1 .. 49 |->
        DayVal(PlusDays(first_day_of_pesach, k - 1),
               Name("MinorDays", "Omer", "Omer" \o ToString(k), k),
               NotApplicable)]

\* get_omer(year): 49 entries, the k-th k days after the 15th of Nissan.
OmerFrom(first_day_of_pesach) ==
    [k \in 1 .. 49 |->
        DayVal(PlusDays(first_day_of_pesach, k),
               Name("MinorDays", "Omer", "Omer" \o ToString(k), k),
               NotApplicable)]

GetOmer(y) == OmerFrom(ToInstant(y, "Nissan", 15))

\* get_minor_holidays(year).
MinorDay(rh, ms, month, day, json) ==
    DayVal(InstantIn(rh, ms, month, day), Name("MinorDays", "Minor", json, 0),
           NotApplicable)

\* A variant of get_minor_holidays without the leap-year branch.
MinorHolidaysEveryYear(rh, ms, leap) ==
    << MinorDay(rh, ms, "Tishrei", 9, "ErevYomKippur"),
       MinorDay(rh, ms, "Tishrei", 14, "ErevSukkos"),
       MinorDay(rh, ms, "Nissan", 14, "ErevPesach"),
       MinorDay(rh, ms, "Iyar", 14, "PesachSheni"),
       MinorDay(rh, ms, "Iyar", 18, "LagBaomer"),
       MinorDay(rh, ms, "Sivan", 5, "ErevShavuos"),
       MinorDay(rh, ms, "Elul", 29, "ErevRoshHashanah"),
       MinorDay(rh, ms, "Shvat", 15, "Shvat15"),
       MinorDay(rh, ms, "Av", 15, "Av15") >>

MinorHolidaysIn(rh, ms, leap) ==
    << MinorDay(rh, ms, "Tishrei", 9, "ErevYomKippur"),
       MinorDay(rh, ms, "Tishrei", 14, "ErevSukkos"),
       MinorDay(rh, ms, "Nissan", 14, "ErevPesach"),
       MinorDay(rh, ms, "Iyar", 14, "PesachSheni"),
       MinorDay(rh, ms, "Iyar", 18, "LagBaomer"),
       MinorDay(rh, ms, "Sivan", 5, "ErevShavuos"),
       MinorDay(rh, ms, "Elul", 29, "ErevRoshHashanah"),
       MinorDay(rh, ms, "Shvat", 15, "Shvat15"),
       MinorDay(rh, ms, "Av", 15, "Av15") >>
    \o (IF leap
        THEN << MinorDay(rh, ms, "Adar1", 14, "PurimKattan"),
                MinorDay(rh, ms, "Adar1", 15, "ShushanPurimKattan") >>
        ELSE << >>)

GetMinorHolidays(y) ==
    MinorHolidaysIn(RoshHashanahEve(y), Months(y), IsLeapYear(y))

\* A CustomHoliday: its primary date, its fallbacks (if_not_exists, an empty
\* list when there is none) and its label.
CustomHoliday(json, month, day, if_not_exists) ==
    [json |-> json, date |-> [month |-> month, day |-> day],
     if_not_exists |-> if_not_exists]

MonthDay(month, day) == [month |-> month, day |-> day]

CustomDayVal(rh, ms, x, date) ==
    DayVal(InstantIn(rh, ms, date.month, date.day),
           Name("CustomHoliday", "Custom", x.json, 0), NotApplicable)

CustomDayVals(rh, ms, x, dates) ==
    [k \in 1 .. Len(dates) |-> CustomDayVal(rh, ms, x, dates[k])]

FirstOf(s) == IF s = << >> THEN << >> ELSE << Head(s) >>

\* A variant of the custom-holiday resolution that stops at the first
\* fallback date that exists.
CustomFirstFallback(rh, ms, x) ==
    IF MonthHasDay(ms, x.date.month, x.date.day)
    THEN << CustomDayVal(rh, ms, x, x.date) >>
    ELSE FirstOf(CustomDayVals(rh, ms, x,
                     SelectSeq(x.if_not_exists,
                               LAMBDA d : MonthHasDay(ms, d.month, d.day))))

\* The events of one custom holiday in a year: the primary date when it
\* exists, otherwise every fallback that exists, in order.
CustomEventsIn(rh, ms, x) ==
    IF MonthHasDay(ms, x.date.month, x.date.day)
    THEN << CustomDayVal(rh, ms, x, x.date) >>
    ELSE CustomDayVals(rh, ms, x,
                       SelectSeq(x.if_not_exists,
                                 LAMBDA d : MonthHasDay(ms, d.month, d.day)))

CustomEvents(y, x) == CustomEventsIn(RoshHashanahEve(y), Months(y), x)

\* The closure of get_list's parallel map: the events of year y.
ReadingDayVals(hs, location, city) ==
    [k \in 1 .. Len(hs) |-> ReadingDayVal(hs[k], location, city)]

YearEvents(y, location, events, city) ==
    ReadingDayVals(GetHolidays(y, location, events.main_events), location, city)
        \o (IF events.omer THEN GetOmer(y) ELSE << >>)
        \o (IF events.minor THEN GetMinorHolidays(y) ELSE << >>)
        \o Flatten([k \in 1 .. Len(events.custom_events) |->
                       CustomEvents(y, events.custom_events[k])])

(***************************************************************************)
(* DailyStudyEvents::get_day_val: the day-by-day study-cycle scan.         *)
(***************************************************************************)
first_day_of_first_cycle == AndHms(Ymd(1923, 9, 10), 18)

\* A variant of the second epoch one day later.
first_day_of_second_cycle_day_later == AndHms(Ymd(1975, 6, 24), 18)

first_day_of_second_cycle == AndHms(Ymd(1975, 6, 23), 18)

first_day_of_rambam == AndHms(Ymd(1984, 4, 27), 18)

first_day_of_yerushalmi_yomi == AndHms(Ymd(1980, 2, 1), 18)

FirstCycleLength == 2702

SecondCycleLength == 2711

RambamLength == 1017

YerushalmiLength == 1563 - 5 - 4

StudyVal(i, kind, table, offset) ==
    DayVal(i, Name("DailyStudy", kind, table, offset), NotApplicable)

\* A variant of the Daf Yomi entry that tests the first epoch before the
\* second.
DafYomiFirstEpochFirst(i) ==
    IF i >= first_day_of_first_cycle
    THEN << StudyVal(i, "Daf", "GEMARAS_FIRST_CYCLE",
                     NumDays(i, first_day_of_first_cycle) % FirstCycleLength) >>
    ELSE IF i >= first_day_of_second_cycle
         THEN << StudyVal(i, "Daf", "GEMARAS_SECOND_CYCLE",
                          NumDays(i, first_day_of_second_cycle) % SecondCycleLength) >>
         ELSE << >>

\* A variant of the Daf Yomi entry that wraps both cycles at the first
\* cycle's length.
DafYomiOneLength(i) ==
    IF i >= first_day_of_second_cycle
    THEN << StudyVal(i, "Daf", "GEMARAS_SECOND_CYCLE",
                     NumDays(i, first_day_of_second_cycle) % FirstCycleLength) >>
    ELSE IF i >= first_day_of_first_cycle
         THEN << StudyVal(i, "Daf", "GEMARAS_FIRST_CYCLE",
                          NumDays(i, first_day_of_first_cycle) % FirstCycleLength) >>
         ELSE << >>

\* DailyStudy::DafYomi on day i.
DafYomiDay(i) ==
    IF i >= first_day_of_second_cycle
    THEN << StudyVal(i, "Daf", "GEMARAS_SECOND_CYCLE",
                     NumDays(i, first_day_of_second_cycle) % SecondCycleLength) >>
    ELSE IF i >= first_day_of_first_cycle
         THEN << StudyVal(i, "Daf", "GEMARAS_FIRST_CYCLE",
                          NumDays(i, first_day_of_first_cycle) % FirstCycleLength) >>
         ELSE << >>

\* A variant of the Rambam entry that wraps both variants at 1017.
RambamDayOneLength(i, chapters) ==
    IF i >= first_day_of_rambam
    THEN IF chapters = "One"
         THEN << StudyVal(i, "RambamOneChapters", "RambamChapter",
                          NumDays(i, first_day_of_rambam) % RambamLength) >>
         ELSE << StudyVal(i, "RambamThreeChapters", "RambamThreeChapter",
                          NumDays(i, first_day_of_rambam) % RambamLength) >>
    ELSE << >>

\* DailyStudy::Rambam(chapters) on day i.
RambamDay(i, chapters) ==
    IF i >= first_day_of_rambam
    THEN IF chapters = "One"
         THEN << StudyVal(i, "RambamOneChapters", "RambamChapter",
                          NumDays(i, first_day_of_rambam) % RambamLength) >>
         ELSE << StudyVal(i, "RambamThreeChapters", "RambamThreeChapter",
                          NumDays(i, first_day_of_rambam) % (RambamLength \div 3)) >>
    ELSE << >>

first_hebrew_day_of_yerushalmi_yomi == HebrewDateOf(first_day_of_yerushalmi_yomi)

\* The skip counts of the Yerushalmi Yomi arm on day i, whose Hebrew date is
\* cur_hebrew_day.
amnt_years(cur_hebrew_day) ==
    cur_hebrew_day.year - first_hebrew_day_of_yerushalmi_yomi.year

amnt_yom_kippur_this_year(cur_hebrew_day) ==
    IF cur_hebrew_day.month = "Tishrei" /\ cur_hebrew_day.day < 10
    THEN 0 ELSE 1

amnt_tisha_beav_this_year(i, cur_hebrew_day) ==
    IF i < NineAvDay(cur_hebrew_day.year) THEN 0 ELSE 1

\* A variant of amnt_yom_kippur that counts one Yom Kippur for every year
\* elapsed, the epoch's year included.
amnt_yom_kippur_every_year(cur_hebrew_day) ==
    IF amnt_years(cur_hebrew_day) = 0 THEN 0
    ELSE IF amnt_years(cur_hebrew_day) = 1
         THEN amnt_yom_kippur_this_year(cur_hebrew_day)
    ELSE amnt_years(cur_hebrew_day)
             + amnt_yom_kippur_this_year(cur_hebrew_day)

amnt_yom_kippur(cur_hebrew_day) ==
    IF amnt_years(cur_hebrew_day) = 0 THEN 0
    ELSE IF amnt_years(cur_hebrew_day) = 1
         THEN amnt_yom_kippur_this_year(cur_hebrew_day)
    ELSE amnt_years(cur_hebrew_day) - 1
             + amnt_yom_kippur_this_year(cur_hebrew_day)

\* A variant of amnt_tisha_beav that forgets the Tisha B'Av of the first
\* year in the second.
amnt_tisha_beav_second_year(i, cur_hebrew_day) ==
    IF amnt_years(cur_hebrew_day) <= 1
    THEN amnt_tisha_beav_this_year(i, cur_hebrew_day)
    ELSE amnt_years(cur_hebrew_day) + amnt_tisha_beav_this_year(i, cur_hebrew_day)

amnt_tisha_beav(i, cur_hebrew_day) ==
    IF amnt_years(cur_hebrew_day) = 0
    THEN amnt_tisha_beav_this_year(i, cur_hebrew_day)
    ELSE IF amnt_years(cur_hebrew_day) = 1
         THEN amnt_tisha_beav_this_year(i, cur_hebrew_day) + 1
    ELSE amnt_years(cur_hebrew_day) + amnt_tisha_beav_this_year(i, cur_hebrew_day)

\* A variant of the skip test that takes Tisha B'Av on its nominal date.
IsNominalFast(i, cur_hebrew_day) ==
    \/ (cur_hebrew_day.month = "Tishrei" /\ cur_hebrew_day.day = 10)
    \/ (cur_hebrew_day.month = "Av" /\ cur_hebrew_day.day = 9)

\* The day is Yom Kippur or the observed Tisha B'Av of its year.
IsSkippedDay(i, cur_hebrew_day) ==
    \/ (cur_hebrew_day.month = "Tishrei" /\ cur_hebrew_day.day = 10)
    \/ i = NineAvDay(cur_hebrew_day.year)

\* diff_days as u64 - amnt_tisha_beav - amnt_yom_kippur: -1 stands for an
\* unsigned subtraction that underflows.
Sub64ThenMod(raw) == IF raw < 0 THEN 0 - 1 ELSE raw % YerushalmiLength

\* A variant of the offset that wraps the day count before it subtracts the
\* skipped fasts.
YerushalmiOffsetWrapFirst(i, cur_hebrew_day) ==
    Sub64ThenMod((NumDays(i, first_day_of_yerushalmi_yomi) % YerushalmiLength)
                     - amnt_tisha_beav(i, cur_hebrew_day)
                     - amnt_yom_kippur(cur_hebrew_day))

YerushalmiOffset(i, cur_hebrew_day) ==
    Sub64ThenMod(NumDays(i, first_day_of_yerushalmi_yomi)
                     - amnt_tisha_beav(i, cur_hebrew_day)
                     - amnt_yom_kippur(cur_hebrew_day))

\* DailyStudy::YerushalmiYomi on day i.
YerushalmiYomiOn(i, cur_hebrew_day) ==
    IF ~IsSkippedDay(i, cur_hebrew_day)
    THEN IF NumDays(i, first_day_of_yerushalmi_yomi) > 0
         THEN << StudyVal(i, "YerushalmiYomi", "YerushalmiYomi",
                          YerushalmiOffset(i, cur_hebrew_day)) >>
         ELSE << >>
    ELSE << >>

YerushalmiYomiDay(i) ==
    IF i >= first_day_of_yerushalmi_yomi
    THEN YerushalmiYomiOn(i, HebrewDateOf(i))
    ELSE << >>

StudyDay(i, event) ==
    CASE event = "DafYomi"        -> DafYomiDay(i)
      [] event = "RambamOne"      -> RambamDay(i, "One")
      [] event = "RambamThree"    -> RambamDay(i, "Three")
      [] event = "YerushalmiYomi" -> YerushalmiYomiDay(i)

\* One iteration of the while loop: the entries of day i, one subscribed
\* cycle after the other.
DayEntries(i, studies) ==
    Flatten([k \in 1 .. Len(studies) |-> StudyDay(i, studies[k])])

RECURSIVE ScanRange(_, _, _)
ScanRange(lo, hi, studies) ==
    IF lo > hi THEN << >>
    ELSE IF lo = hi THEN DayEntries(AndHms(lo, 18), studies)
    ELSE ScanRange(lo, (lo + hi) \div 2, studies)
             \o ScanRange(((lo + hi) \div 2) + 1, hi, studies)

\* first_day and last_day of the scan.
ScanFirstDay(start_year) == ToInstant(start_year, "Tishrei", 1)

\* A variant of last_day that ends the scan a year later, as the year range
\* handed to get_list does.
ScanLastDayOfNextYear(last_year) == ToInstant(last_year + 1, "Elul", 29)

ScanLastDay(last_year) == ToInstant(last_year, "Elul", 29)

\* The two from_ymd(..).unwrap() of get_day_val succeed.
ScanYearsValid(start_year, last_year) ==
    ValidYear(start_year) /\ ValidYear(last_year)

\* get_day_val(start_year, last_year), when it does not panic.
GetDayVal(studies, start_year, last_year) ==
    IF studies = << >> THEN << >>
    ELSE ScanRange(ScanFirstDay(start_year) \div 24,
                   ScanLastDay(last_year) \div 24, studies)

(***************************************************************************)
(* ListArgs::run as a state machine.                                       *)
(***************************************************************************)
VARIABLES
    req,         \* the ListArgs of the run (read only)
    pc,          \* the step run is at
    that_year,   \* first year handed to get_list and get_day_val
    last_year,   \* last year handed to get_list
    part1,       \* get_list: one slot per parallel task, filled by its task
    list,        \* the list built so far (part1 / part2 / result1.list in run)
    result,      \* "running", "Ok", "InvalidYear" (Err returned) or "panic"
    printed,     \* the records handed to the renderer, in order
    out,         \* the lines pretty_print has written, each with its language
    i,           \* get_day_val: the day the scan is at
    return_val   \* get_day_val: the entries pushed so far

vars == <<req, pc, that_year, last_year, part1, list, result, printed,
          out, i, return_val>>

\* Bounds of the requests the model draws.
MaxAmntYears == 2

MaxScanYears == 2

AllReadings == {"YomTov", "Chol", "Shabbos", "SpecialParsha"}

Events(main_events, omer, minor, custom_events, daily_study) ==
    [main_events |-> main_events, omer |-> omer, minor |-> minor,
     custom_events |-> custom_events, daily_study |-> daily_study]

\* Custom holidays of the requests: a day only long Cheshvan has, a date in
\* the leap-only month with two fallbacks, one with no fallback list, and one
\* whose primary and fallback never exist.
CustomHolidays ==
    << CustomHoliday("Cheshvan30", "Cheshvan", 30, << MonthDay("Kislev", 1) >>),
       CustomHoliday("Adar1_14", "Adar1", 14,
                     << MonthDay("Adar2", 14), MonthDay("Adar", 14),
                        MonthDay("Adar", 15) >>),
       CustomHoliday("Kislev30", "Kislev", 30, << >>),
       CustomHoliday("Never", "Teves", 30, << MonthDay("Elul", 30) >>),
       CustomHoliday("Nissan1", "Nissan", 1, << MonthDay("Iyar", 1) >>) >>

Cities == {NoCity, City(18, FALSE), City(40, TRUE)}

HebrewRequestYears == {3762, 3763, 3764, 5740, 5783}

GregorianRequestYears == {3, 4, 1980, 2023}

StudyRequestYears == {3764, 5740, 4, 1980}

ListArgs(year_type, year, amnt, location, events, city, no_sort) ==
    [year_type |-> year_type, year |-> year, amnt_years |-> amnt,
     location |-> location, events |-> events, city |-> city,
     no_sort |-> no_sort]

YearChoices ==
    ({"Hebrew"} \X HebrewRequestYears) \cup ({"Gregorian"} \X GregorianRequestYears)

Requests ==
    \* every reading category, at both locations, with and without a city
    { ListArgs(y[1], y[2], n, loc, Events(AllReadings, FALSE, FALSE, << >>, << >>),
               city, ns) :
        y \in YearChoices, n \in 0 .. MaxAmntYears, loc \in {"Chul", "Israel"},
        city \in Cities, ns \in BOOLEAN }
    \cup
    \* festivals with the Omer, the minor holidays and custom holidays
    { ListArgs(y[1], y[2], n, "Chul",
               Events({"YomTov"}, TRUE, TRUE, CustomHolidays, << >>), NoCity, ns) :
        y \in YearChoices, n \in 0 .. MaxAmntYears, ns \in BOOLEAN }
    \cup
    \* festivals with study cycles
    { ListArgs(y[1], y[2], n, "Israel",
               Events({"YomTov"}, FALSE, FALSE, << >>,
                      <<"DafYomi", "YerushalmiYomi", "RambamThree">>),
               City(18, FALSE), ns) :
        y \in {c \in YearChoices : c[2] \in StudyRequestYears},
        n \in 0 .. MaxAmntYears, ns \in BOOLEAN }

Init ==
    /\ req \in Requests
    /\ out = << >>
    /\ pc = "start"
    /\ that_year = 0
    /\ last_year = 0
    /\ part1 = << >>
    /\ list = << >>
    /\ result = "running"
    /\ printed = << >>
    /\ i = 0
    /\ return_val = << >>

\* A task slot of collect_into_vec: not yet written, or the task's list.
Pending == [done |-> FALSE, ret |-> << >>]

Done(ret) == [done |-> TRUE, ret |-> ret]

\* YearType::Hebrew: HebrewYear::new(year)?; HebrewYear::new(year + amnt_years)?
RunHebrew ==
    /\ pc = "start"
    /\ req.year_type = "Hebrew"
    /\ IF ValidYear(req.year) /\ ValidYear(req.year + req.amnt_years)
       THEN /\ that_year' = req.year
            /\ last_year' = req.year + req.amnt_years
            /\ pc' = "get_list"
            /\ UNCHANGED result
       ELSE /\ result' = "InvalidYear"
            /\ pc' = "done"
            /\ UNCHANGED <<that_year, last_year>>
    /\ UNCHANGED <<req, part1, list, printed, out, i, return_val>>

orig_jan_1(year) == AndHms(Ymd(year - 1, 12, 31), 18)

\* A variant of last_jan_1 at the end of the filter window.
last_jan_1_of_window(year, amnt) == AndHms(Ymd(year + amnt, 1, 1), 18)

last_jan_1(year, amnt) == AndHms(Ymd(year + amnt + 1, 1, 1), 18)

\* YearType::Gregorian: the two HebrewDate::try_from(..).unwrap().year().
RunGregorian ==
    /\ pc = "start"
    /\ req.year_type = "Gregorian"
    /\ IF /\ ConvertibleInstant(orig_jan_1(req.year))
          /\ ConvertibleInstant(last_jan_1(req.year, req.amnt_years))
       THEN /\ that_year' = HebrewYearOf(orig_jan_1(req.year))
            /\ last_year' = HebrewYearOf(last_jan_1(req.year, req.amnt_years))
            /\ pc' = "get_list"
            /\ UNCHANGED result
       ELSE /\ result' = "panic"
            /\ pc' = "done"
            /\ UNCHANGED <<that_year, last_year>>
    /\ UNCHANGED <<req, part1, list, printed, out, i, return_val>>

\* A variant of the task count that includes the last year.
TaskCountInclusive(year, last) == last - year + 1

\* The number of tasks get_list spawns: 0 .. amnt_years - 1.
TaskCount(year, last) == last - year

\* get_list up to the parallel map: the two validations, then one pending
\* slot per task.
GetListStart ==
    /\ pc = "get_list"
    /\ IF ValidYear(that_year) /\ ValidYear(that_year + (last_year - that_year))
       THEN /\ part1' = [x \in 1 .. TaskCount(that_year, last_year) |-> Pending]
            /\ pc' = "expand"
            /\ UNCHANGED result
       ELSE /\ result' = "InvalidYear"
            /\ pc' = "done"
            /\ UNCHANGED part1
    /\ UNCHANGED <<req, that_year, last_year, list, printed, out, i, return_val>>

\* The year task x expands (x counts from 1 here, from 0 in the code).
TaskYear(x, year) == (x - 1) + year

\* One task of the parallel map runs its closure and writes its own slot.
ExpandYear(x) ==
    /\ pc = "expand"
    /\ ~part1[x].done
    /\ part1' = [part1 EXCEPT ![x] =
                    Done(YearEvents(TaskYear(x, that_year), req.location,
                                    req.events, req.city))]
    /\ UNCHANGED <<req, pc, that_year, last_year, list, result, printed, out, i,
                   return_val>>

\* A variant of Collect that flattens the slots from the last task to the
\* first.
CollectDescending ==
    /\ pc = "expand"
    /\ \A x \in 1 .. Len(part1) : part1[x].done
    /\ list' = Flatten([x \in 1 .. Len(part1) |-> part1[Len(part1) + 1 - x].ret])
    /\ pc' = "scan"
    /\ UNCHANGED <<req, that_year, last_year, part1, result, printed, out, i,
                   return_val>>

\* collect_into_vec is complete; part1.into_iter().flatten() fills part2.
Collect ==
    /\ pc = "expand"
    /\ \A x \in 1 .. Len(part1) : part1[x].done
    /\ list' = Flatten([x \in 1 .. Len(part1) |-> part1[x].ret])
    /\ pc' = "scan"
    /\ UNCHANGED <<req, that_year, last_year, part1, result, printed, out, i,
                   return_val>>

\* The last year run hands to get_day_val.
ScanLastYear ==
    IF req.year_type = "Hebrew" THEN req.year + req.amnt_years - 1
    ELSE last_year

\* part1.extend(daily_study_events.get_day_val(..)): the whole scan.
Scan ==
    /\ pc = "scan"
    /\ IF req.events.daily_study = << >> \/ ScanYearsValid(that_year, ScanLastYear)
       THEN /\ return_val' = GetDayVal(req.events.daily_study, that_year,
                                       ScanLastYear)
            /\ list' = list \o return_val'
            /\ pc' = IF req.year_type = "Gregorian" THEN "filter" ELSE "sort"
            /\ UNCHANGED result
       ELSE /\ result' = "panic"
            /\ pc' = "done"
            /\ UNCHANGED <<list, return_val>>
    /\ UNCHANGED <<req, that_year, last_year, part1, printed, out, i>>

WindowStart(year) == AndHms(Ymd(year, 1, 1), 0)

WindowEnd(year, amnt) == AndHms(Ymd(year + amnt, 1, 1), 0)

\* A variant of the filters whose lower bound is the evening of January 1.
InWindowFromEvening(x, year, amnt) ==
    x.day > AndHms(Ymd(year, 1, 1), 18) /\ x.day < WindowEnd(year, amnt)

\* A variant of the filters whose upper bound is one year late.
InWindowOneMore(x, year, amnt) ==
    x.day > WindowStart(year) /\ x.day < WindowEnd(year, amnt + 1)

\* The two filters of the Gregorian branch.
InWindow(x, year, amnt) ==
    x.day > WindowStart(year) /\ x.day < WindowEnd(year, amnt)

Filter ==
    /\ pc = "filter"
    /\ list' = SelectSeq(list, LAMBDA x : InWindow(x, req.year, req.amnt_years))
    /\ pc' = "sort"
    /\ UNCHANGED <<req, that_year, last_year, part1, result, printed, out, i,
                   return_val>>

Reverse(s) == [k \in 1 .. Len(s) |-> s[Len(s) + 1 - k]]

\* A variant of the comparison with its operands exchanged.
DayGreater(a, b) == b.day < a.day

\* a.day.cmp(&b.day)
DayLess(a, b) == a.day < b.day

\* The places lo .. hi of a list sorted by day, one event per day.
RECURSIVE DedupByDay(_, _, _)
DedupByDay(t, lo, hi) ==
    IF lo > hi THEN << >>
    ELSE IF lo = hi
         THEN IF lo > 1 /\ t[lo].day = t[lo - 1].day THEN << >> ELSE << t[lo] >>
    ELSE DedupByDay(t, lo, (lo + hi) \div 2)
             \o DedupByDay(t, ((lo + hi) \div 2) + 1, hi)

\* A variant of the sort that keeps one event of those with the same day.
SortByDayDedup(s, keep) ==
    IF keep THEN DedupByDay(SortSeq(s, DayLess), 1, Len(s))
    ELSE DedupByDay(SortSeq(Reverse(s), DayLess), 1, Len(s))

\* par_sort_unstable_by: ascending by day.  The order of events with the same
\* day is not determined: the model lets them keep their order or reverse it.
SortByDay(s, keep) ==
    IF keep THEN SortSeq(s, DayLess) ELSE SortSeq(Reverse(s), DayLess)

Sort ==
    /\ pc = "sort"
    /\ IF ~req.no_sort
       THEN \E keep \in BOOLEAN : list' = SortByDay(list, keep)
       ELSE UNCHANGED list
    /\ pc' = "print"
    /\ UNCHANGED <<req, that_year, last_year, part1, result, printed, out, i,
                   return_val>>

(***************************************************************************)
(* Return::pretty_print: one line of text per event.                       *)
(***************************************************************************)
Languages == {"English", "Hebrew"}

CivilMonthIn(n, y) ==
    CHOOSE m \in 1 .. 12 :
        Ymd(y, m, 1) <= n /\ (m = 12 \/ n < Ymd(y, m + 1, 1))

\* A zero byte of an output buffer.
Nul == "\\0"

\* itoa::write into a [b'\0'; 2] buffer that is then written whole.
WholeBuffer(v) == IF v < 10 THEN ToString(v) \o Nul ELSE ToString(v)

NightOf(lang) == IF lang = "English" THEN "Night of " ELSE "ליל "

CandleLightingWord(lang) ==
    IF lang = "English" THEN ". Candle lighting" ELSE ". הדלקת נרות"

\* The writes of the time: " ", the hour, ":", "0" when the minute has one
\* digit, the minute.
TimeText(time) ==
    << " ", WholeBuffer((time % 1440) \div 60), ":" >>
        \o (IF time % 60 < 10 THEN << "0" >> ELSE << >>)
        \o << WholeBuffer(time % 60) >>

\* A variant of the suffix that treats the field as a two-state optional:
\* the time when there is one, nothing otherwise.
CandleLightingTextTwoState(candle_lighting, lang) ==
    IF candle_lighting.state = "ApplicableKnown"
    THEN << CandleLightingWord(lang) >> \o TimeText(candle_lighting.time)
    ELSE << >>

\* The writes that follow the label of a Torah reading: none for None, the
\* words for Some(None), the words and the time for Some(Some(time)).
CandleLightingText(candle_lighting, lang) ==
    IF candle_lighting.state = "NotApplicable"
    THEN << >>
    ELSE IF candle_lighting.state = "ApplicableKnown"
         THEN << CandleLightingWord(lang) >> \o TimeText(candle_lighting.time)
         ELSE << CandleLightingWord(lang) >>

\* The label of a name in a language; the tables of labels are represented
\* by the name's identity, one label per name and language.
Label(name, lang) == [language |-> lang, of |-> name]

\* The writes of ret.year(), "/", ret.month(), "/", ret.day().
DateTextOfMonth(n, y, m) ==
    << ToString(y), "/", ToString(m), "/", ToString(n - Ymd(y, m, 1) + 1) >>

DateTextOfYear(n, y) == DateTextOfMonth(n, y, CivilMonthIn(n, y))

DateText(day) == DateTextOfYear(day \div 24, CivilYearOfDay(day \div 24))

\* The line of one event as the sequence of its writes, without the final
\* newline.
PrettyLine(d, lang) ==
    << NightOf(lang) >> \o DateText(d.day) \o << ": ", Label(d.name, lang) >>
        \o (IF d.name.tag = "TorahReading"
            THEN CandleLightingText(d.candle_lighting, lang)
            ELSE << >>)

\* A line written under args.language.
Line(lang, text) == [language |-> lang, text |-> text]

\* result1.print(args): the renderer walks the list in order; printed is the
\* sequence of records it is handed, out the text lines it writes for them
\* in the language of MainArgs.
PrintList ==
    /\ pc = "print"
    /\ printed' = list
    /\ \E lang \in Languages :
          out' = [k \in 1 .. Len(list) |->
                     Line(lang, PrettyLine(list[k], lang))]
    /\ result' = "Ok"
    /\ pc' = "done"
    /\ UNCHANGED <<req, that_year, last_year, part1, list, i,
                   return_val>>

Next ==
    \/ RunHebrew
    \/ RunGregorian
    \/ GetListStart
    \/ \E x \in 1 .. Len(part1) : ExpandYear(x)
    \/ Collect
    \/ Scan
    \/ Filter
    \/ Sort
    \/ PrintList

Spec == Init /\ [][Next]_vars

(***************************************************************************)
(* get_day_val on its own, one iteration of its while loop per step.       *)
(***************************************************************************)
ScanStartYears == {5683, 5691, 5735, 5740, 5741, 5742, 5744, 5746}

StudyLists ==
    { <<"DafYomi", "RambamOne", "RambamThree", "YerushalmiYomi">>,
      <<"YerushalmiYomi", "DafYomi">>,
      << >> }

\* The calls get_day_val(year, year + amnt_years - 1) of Hebrew requests.
ScanRequests ==
    { ListArgs("Hebrew", y, n, "Chul", Events({}, FALSE, FALSE, << >>, studies),
               NoCity, FALSE) :
        y \in ScanStartYears, n \in 0 .. MaxScanYears, studies \in StudyLists }

InitScan ==
    /\ req \in ScanRequests
    /\ out = << >>
    /\ pc = "scan_loop"
    /\ that_year = req.year
    /\ last_year = req.year + req.amnt_years - 1
    /\ part1 = << >>
    /\ list = << >>
    /\ result = "running"
    /\ printed = << >>
    /\ i = ScanFirstDay(req.year)
    /\ return_val = << >>

\* if self.is_empty() { return vec![]; }
ScanEmpty ==
    /\ pc = "scan_loop"
    /\ req.events.daily_study = << >>
    /\ pc' = "scanned"
    /\ UNCHANGED <<req, that_year, last_year, part1, list, result, printed, out, i,
                   return_val>>

\* One iteration of `while i <= last_day`.
ScanDay ==
    /\ pc = "scan_loop"
    /\ req.events.daily_study # << >>
    /\ i <= ScanLastDay(last_year)
    /\ return_val' = return_val \o DayEntries(i, req.events.daily_study)
    /\ i' = PlusDays(i, 1)
    /\ UNCHANGED <<req, pc, that_year, last_year, part1, list, result, printed, out>>

\* The loop ends and get_day_val returns return_val.
ScanReturn ==
    /\ pc = "scan_loop"
    /\ req.events.daily_study # << >>
    /\ i > ScanLastDay(last_year)
    /\ pc' = "scanned"
    /\ UNCHANGED <<req, that_year, last_year, part1, list, result, printed, out, i,
                   return_val>>

NextScan == ScanEmpty \/ ScanDay \/ ScanReturn

SpecScan == InitScan /\ [][NextScan]_vars

(***************************************************************************)
(* Properties.                                                             *)
(***************************************************************************)
Range(s) == {s[k] : k \in 1 .. Len(s)}

\* Every list of events the run holds: the task slots, the list, the output.
AllEvents ==
    Range(list) \cup Range(printed)
        \cup UNION {Range(part1[x].ret) : x \in 1 .. Len(part1)}

SortedByDay(s) == \A k \in 1 .. Len(s) - 1 : s[k].day <= s[k + 1].day

Finished == pc = "done" /\ result = "Ok"

\* C1: when sorting is not disabled, the list handed to the renderer, and
\* what the renderer writes, is ascending by instant: a.day <= b.day for
\* every adjacent pair, for Hebrew and Gregorian requests alike.
C1_SortedOutput ==
    (~req.no_sort /\ (pc = "print" \/ Finished))
        => SortedByDay(list) /\ SortedByDay(printed)

\* A sorted Gregorian run has printed readings and study entries together.
C1_Witness ==
    /\ Finished
    /\ ~req.no_sort
    /\ req.year_type = "Gregorian"
    /\ \E a, b \in Range(printed) :
          a.name.tag = "DailyStudy" /\ b.name.tag = "TorahReading"

\* C2: for a Gregorian request (Y, N) every event kept after the filter, and
\* every event written, has its instant in [Jan-1 00:00 Y, Jan-1 00:00 Y+N).
C2_GregorianWindow ==
    (req.year_type = "Gregorian" /\ pc \in {"sort", "print", "done"})
        => \A e \in Range(list) \cup Range(printed) :
              /\ AndHms(Ymd(req.year, 1, 1), 0) <= e.day
              /\ e.day < AndHms(Ymd(req.year + req.amnt_years, 1, 1), 0)

\* A Gregorian run has printed a study entry, and the scan had produced
\* entries the filter dropped.
C2_Witness ==
    /\ Finished
    /\ req.year_type = "Gregorian"
    /\ \E e \in Range(printed) : e.name.tag = "DailyStudy"
    /\ \E e \in Range(return_val) : e \notin Range(printed)

HebrewFestivalRun ==
    Finished /\ req.year_type = "Hebrew" /\ "YomTov" \in req.events.main_events

\* C3 as claimed: a Hebrew request (Y, N) expands every year Y .. Y+N, so
\* the first day of Rosh Hashanah of each of them, Y+N included, is written.
C3_ExpandsThroughLastYear ==
    HebrewFestivalRun
        => \A y \in req.year .. (req.year + req.amnt_years) :
              \E e \in Range(printed) :
                 /\ e.name.id = "RoshHashanah1"
                 /\ e.day = AndHms(RoshHashanahEve(y), 18)

\* C3 amended: a Hebrew request (Y, N) expands the N years Y .. Y+N-1: the
\* first day of Rosh Hashanah of each is written, and no event of the
\* expander falls in a year outside Y .. Y+N-1.
C3_ExpandsAmntYears ==
    (Finished /\ req.year_type = "Hebrew")
        => /\ "YomTov" \in req.events.main_events
                => \A y \in req.year .. (req.year + req.amnt_years - 1) :
                      \E e \in Range(printed) :
                         /\ e.name.id = "RoshHashanah1"
                         /\ e.day = AndHms(RoshHashanahEve(y), 18)
           /\ \A e \in Range(printed) :
                 e.name.tag # "DailyStudy"
                    => HebrewYearOf(e.day) \in
                          req.year .. (req.year + req.amnt_years - 1)

C3_Witness ==
    /\ HebrewFestivalRun
    /\ req.amnt_years >= 2
    /\ \E e \in Range(printed) :
          /\ e.name.id = "RoshHashanah1"
          /\ HebrewYearOf(e.day) = req.year + req.amnt_years - 1

\* The start or the end of the requested range of religious years is
\* rejected by the calendar.
RequestedYearRejected ==
    IF req.year_type = "Hebrew"
    THEN ~ValidYear(req.year) \/ ~ValidYear(req.year + req.amnt_years)
    ELSE \/ EveOf(AndHms(Ymd(req.year - 1, 12, 31), 18))
               < RoshHashanahEve(FirstValidYear)
         \/ EveOf(AndHms(Ymd(req.year + req.amnt_years + 1, 1, 1), 18))
               < RoshHashanahEve(FirstValidYear)

\* C4: when an endpoint of the requested range of religious years is
\* rejected, run returns the InvalidYear error and no expansion, scan, sort
\* or rendering step has run: nothing is generated and nothing is written.
C4_InvalidYearReturned ==
    RequestedYearRejected
        => /\ part1 = << >> /\ list = << >> /\ return_val = << >>
           /\ printed = << >>
           /\ pc \in {"start", "done"}
           /\ pc = "done" => result = "InvalidYear"

\* C5: with no city configured no event carries ApplicableKnown.
C5_NoCityNeverKnown ==
    ~req.city.some
        => \A e \in AllEvents : e.candle_lighting.state # "ApplicableKnown"

\* Without a city, a Shabbos or Yom Tov eve was written as ApplicableUnknown.
C5_Witness ==
    /\ Finished
    /\ ~req.city.some
    /\ \E e \in Range(printed) : e.candle_lighting.state = "ApplicableUnknown"

\* C6: a weekly-Parsha event never carries NotApplicable.
C6_ParshaNeverNotApplicable ==
    \A e \in AllEvents :
        (e.name.tag = "TorahReading" /\ e.name.kind = "Shabbos")
            => e.candle_lighting.state # "NotApplicable"

\* Weekly Parshas were written, with a known time and with an unknown one.
C6_Witness ==
    /\ Finished
    /\ \E a, b \in Range(printed) :
          /\ a.name.kind = "Shabbos" /\ b.name.kind = "Shabbos"
          /\ a.candle_lighting.state = "ApplicableKnown"
          /\ b.candle_lighting.state = "ApplicableUnknown"

\* The last n entries get_day_val has pushed.
TailEntries(n) ==
    {return_val[k] :
        k \in (IF Len(return_val) > n THEN Len(return_val) - n + 1 ELSE 1)
                  .. Len(return_val)}

Scanning == pc \in {"scan_loop", "scanned"}

Subscribed(event) == event \in Range(req.events.daily_study)

\* The Yerushalmi Yomi entries of the iteration that has just run.
LastYerushalmi ==
    {e \in TailEntries(Len(req.events.daily_study)) :
        e.name.kind = "YerushalmiYomi" /\ e.day = PlusDays(i, 0 - 1)}

\* C7: the scan pushes no Yerushalmi Yomi entry for a day whose religious
\* date is 10 Tishrei, nor for the observed Tisha B'Av of the day's year.
C7_YerushalmiSkipsFasts ==
    Scanning
        => \A e \in LastYerushalmi :
              /\ ~(HebrewDateOf(e.day).month = "Tishrei"
                      /\ HebrewDateOf(e.day).day = 10)
              /\ e.day # NineAvDay(HebrewDateOf(e.day).year)

\* The iteration of an observed Tisha B'Av after the cycle's epoch has run
\* with Yerushalmi Yomi subscribed; the day before it has its entry.
C7_Witness ==
    /\ pc = "scan_loop"
    /\ Subscribed("YerushalmiYomi")
    /\ PlusDays(i, 0 - 1) > first_day_of_yerushalmi_yomi
    /\ PlusDays(i, 0 - 1) = NineAvDay(HebrewYearOf(PlusDays(i, 0 - 1)))
    /\ \E e \in TailEntries(2 * Len(req.events.daily_study)) :
          e.name.kind = "YerushalmiYomi" /\ e.day = PlusDays(i, 0 - 2)

\* The Daf Yomi entries pushed for a day, among the last two iterations'.
DafOn(day) ==
    {e \in TailEntries(2 * Len(req.events.daily_study)) :
        e.name.kind = "Daf" /\ e.day = day}

\* Both days are in the first cycle's era or both in the second's.
SameDafCycle(d, e) ==
    /\ d >= first_day_of_first_cycle
    /\ (d >= first_day_of_second_cycle) <=> (e >= first_day_of_second_cycle)

\* C8: for consecutive scanned days d, d+1 in the same Daf Yomi cycle era,
\* offset(d+1) = (offset(d) + 1) mod 2702 in the first cycle and mod 2711
\* in the second: the offset steps by one a day and wraps at the length.
C8_DafYomiConsecutive ==
    (/\ Scanning
     /\ Subscribed("DafYomi")
     /\ PlusDays(i, 0 - 2) >= ScanFirstDay(that_year)
     /\ SameDafCycle(PlusDays(i, 0 - 2), PlusDays(i, 0 - 1)))
        => /\ Cardinality(DafOn(PlusDays(i, 0 - 2))) = 1
           /\ Cardinality(DafOn(PlusDays(i, 0 - 1))) = 1
           /\ \A a \in DafOn(PlusDays(i, 0 - 2)) :
                 \A b \in DafOn(PlusDays(i, 0 - 1)) :
                    b.name.n =
                       (a.name.n + 1)
                          % (IF a.day >= first_day_of_second_cycle
                             THEN 2711 ELSE 2702)

\* The scan has crossed the end of a pass of the second cycle: the last
\* offset 2710 one day, offset 0 the next.
C8_Witness ==
    /\ Scanning
    /\ \E a \in DafOn(PlusDays(i, 0 - 2)) :
          \E b \in DafOn(PlusDays(i, 0 - 1)) :
             /\ a.name.id = "GEMARAS_SECOND_CYCLE"
             /\ a.name.n = 2710
             /\ b.name.n = 0

\* The Omer entries task x has produced, in order.
OmerOf(x) == SelectSeq(part1[x].ret, LAMBDA e : e.name.kind = "Omer")

\* C9: get_omer yields exactly 49 entries for a year; the k-th (k = 1..49)
\* is k days after the instant of 15 Nissan of that year and is Omer day k.
C9_OmerFortyNine ==
    \A x \in 1 .. Len(part1) :
        (part1[x].done /\ req.events.omer)
            => /\ Len(OmerOf(x)) = 49
               /\ \A k \in 1 .. 49 :
                     /\ OmerOf(x)[k].name.n = k
                     /\ HebrewDateOf(PlusDays(OmerOf(x)[k].day, 0 - k))
                           = [year |-> TaskYear(x, that_year),
                              month |-> "Nissan", day |-> 15]

\* The Omer of a leap year and of a common year have been produced.
C9_Witness ==
    /\ req.events.omer
    /\ \E x, z \in 1 .. Len(part1) :
          /\ part1[x].done /\ part1[z].done
          /\ IsLeapYear(TaskYear(x, that_year))
          /\ ~IsLeapYear(TaskYear(z, that_year))
          /\ Len(OmerOf(x)) = 49 /\ Len(OmerOf(z)) = 49

\* The religious dates (month, day) of the events task x produced for the
\* custom holiday c, in order.
CustomOf(x, c) ==
    SelectSeq(part1[x].ret,
              LAMBDA e : e.name.tag = "CustomHoliday" /\ e.name.id = c.json)

DatesOf(s) ==
    [k \in 1 .. Len(s) |->
        [month |-> HebrewDateOf(s[k].day).month,
         day |-> HebrewDateOf(s[k].day).day]]

YearsOf(s) == {HebrewDateOf(s[k].day).year : k \in 1 .. Len(s)}

\* C10: in a year a custom holiday whose primary date exists yields exactly
\* one event, on that date; otherwise one event per fallback date that
\* exists, in fallback order; when nothing resolves, no event and no error.
C10_CustomHolidayResolution ==
    \A x \in 1 .. Len(part1) :
        part1[x].done
            => \A n \in 1 .. Len(req.events.custom_events) :
                  /\ DatesOf(CustomOf(x, req.events.custom_events[n])) =
                        (IF DateExists(TaskYear(x, that_year),
                                       req.events.custom_events[n].date.month,
                                       req.events.custom_events[n].date.day)
                         THEN << req.events.custom_events[n].date >>
                         ELSE SelectSeq(
                                  req.events.custom_events[n].if_not_exists,
                                  LAMBDA d : DateExists(TaskYear(x, that_year),
                                                        d.month, d.day)))
                  /\ YearsOf(CustomOf(x, req.events.custom_events[n]))
                        \subseteq {TaskYear(x, that_year)}
                  /\ result # "panic"

\* In one year a holiday without its primary date resolved to two fallback
\* dates, another to none at all, and a third to its primary date.
C10_Witness ==
    \E x \in 1 .. Len(part1) :
        /\ part1[x].done
        /\ \E a, b, c \in Range(req.events.custom_events) :
              /\ Len(CustomOf(x, a)) = 2
              /\ Len(CustomOf(x, b)) = 0 /\ b.if_not_exists # << >>
              /\ DatesOf(CustomOf(x, c)) = << c.date >>

\* The Torah-reading events the run holds.
ReadingEvents == {e \in AllEvents : e.name.tag = "TorahReading"}

\* C11: the candle_lighting of a reading event is NotApplicable when neither
\* is_shabbos nor is_yom_tov holds; otherwise it is ApplicableKnown(sunset
\* minus (offset - 1) minutes) exactly when a city is configured, the sunset
\* lookup returns a time and light_on_time is true, and ApplicableUnknown in
\* every other case.
C11_CandleLightingFunction ==
    \A e \in ReadingEvents :
        e.candle_lighting =
            IF ~(IsShabbos(e) \/ IsYomTov(e, req.location))
            THEN NotApplicable
            ELSE IF /\ req.city.some
                    /\ Sunset(req.city, e.day \div 24).some
                    /\ LightOnTime(e)
                 THEN ApplicableKnown(
                          Sunset(req.city, e.day \div 24).time
                              - (req.city.candlelighting_to_sunset - 1))
                 ELSE ApplicableUnknown

\* With a city whose sunset lookup fails on some days, the output has a
\* known time, an eve whose lookup failed, an eve with light_on_time false
\* and a reading that is neither Shabbos nor Yom Tov.
C11_Witness ==
    /\ Finished
    /\ req.city.some /\ req.city.polar
    /\ \E a \in Range(printed) \cap ReadingEvents :
          a.candle_lighting.state = "ApplicableKnown"
    /\ \E b \in Range(printed) \cap ReadingEvents :
          /\ b.candle_lighting.state = "ApplicableUnknown"
          /\ LightOnTime(b) /\ ~Sunset(req.city, b.day \div 24).some
    /\ \E c \in Range(printed) \cap ReadingEvents :
          /\ c.candle_lighting.state = "ApplicableUnknown"
          /\ ~LightOnTime(c) /\ Sunset(req.city, c.day \div 24).some
    /\ \E d \in Range(printed) \cap ReadingEvents :
          d.candle_lighting.state = "NotApplicable"

\* What the Gregorian branch holds before its filter: the expander's
\* events of every task, then the entries of the study scan.
BeforeFilter ==
    Flatten([x \in 1 .. Len(part1) |-> part1[x].ret]) \o return_val

\* C12: for a Gregorian request (Y, N) the filter keeps exactly the events
\* whose instant t satisfies Jan-1 00:00 of Y <= t < Jan-1 00:00 of Y+N, in
\* their order before the filter; no event of the window is dropped.
C12_FilterKeepsWindow ==
    (req.year_type = "Gregorian" /\ pc = "sort")
        => list = SelectSeq(BeforeFilter,
                            LAMBDA e :
                               /\ AndHms(Ymd(req.year, 1, 1), 0) <= e.day
                               /\ e.day < AndHms(Ymd(req.year + req.amnt_years,
                                                     1, 1), 0))

\* The filter has run on readings and study entries: it kept the entry of
\* the evening of January 1 of Y and dropped the one of the evening before
\* and the one of the evening of January 1 of Y+N.
C12_Witness ==
    /\ req.year_type = "Gregorian" /\ pc = "sort"
    /\ req.amnt_years >= 1
    /\ \E e \in Range(list) :
          e.name.tag = "DailyStudy" /\ e.day = AndHms(Ymd(req.year, 1, 1), 18)
    /\ \E e \in Range(list) : e.name.tag = "TorahReading"
    /\ \E e \in Range(return_val) : e.day = AndHms(Ymd(req.year, 1, 1) - 1, 18)
    /\ \E e \in Range(return_val) :
          e.day = AndHms(Ymd(req.year + req.amnt_years, 1, 1), 18)

\* C13: for a Hebrew request whose endpoints Y and Y+N passed validation,
\* every religious year generation resolves afterwards (each expanded year,
\* and the years of the first and the last day of the study scan) lies in
\* Y .. Y+N, and generation does not fail.
C13_GenerationInfallible ==
    (/\ req.year_type = "Hebrew"
     /\ ValidYear(req.year)
     /\ ValidYear(req.year + req.amnt_years))
        => /\ result # "panic"
           /\ \A x \in 1 .. Len(part1) :
                 TaskYear(x, that_year)
                    \in req.year .. (req.year + req.amnt_years)
           /\ (pc = "scan" /\ req.events.daily_study # << >>)
                 => /\ that_year \in req.year .. (req.year + req.amnt_years)
                    /\ ScanLastYear \in req.year .. (req.year + req.amnt_years)

\* The weekly-Parsha events the run holds.
ParshaEvents == {e \in ReadingEvents : e.name.kind = "Shabbos"}

\* C14 as claimed: the instant of every weekly-Parsha event falls on a civil
\* Saturday.
C14_ParshaOnSaturday ==
    \A e \in ParshaEvents : Weekday(e.day) = Sat

\* C14 amended: the instant of every weekly-Parsha event falls on a civil
\* Friday, at 18:00, the evening on which that Shabbos begins.
C14_ParshaOnFridayEvening ==
    \A e \in ParshaEvents : Weekday(e.day) = Fri /\ e.day % 24 = 18

\* Weekly Parshas of a year have been written, for Israel and a leap year.
C14_Witness ==
    /\ Finished
    /\ req.location = "Israel"
    /\ \E e \in Range(printed) \cap ParshaEvents :
          IsLeapYear(HebrewYearOf(e.day))

\* The text of a sequence of writes.
RECURSIVE ConcatText(_)
ConcatText(s) == IF s = << >> THEN "" ELSE Head(s) \o ConcatText(Tail(s))

\* The indices of the Torah-reading events written with a given state.
WrittenWith(state) ==
    {k \in 1 .. Len(printed) :
        /\ printed[k].name.tag = "TorahReading"
        /\ printed[k].candle_lighting.state = state}

\* What line k has after its label (the eighth write).
AfterLabel(k) == SubSeq(out[k].text, 9, Len(out[k].text))

AfterLabelTexts(state) == {ConcatText(AfterLabel(k)) : k \in WrittenWith(state)}

TwoDigits(v) == (IF v < 10 THEN "0" ELSE "") \o ToString(v)

\* " HH:MM" for the time, each number possibly followed by the unused zero
\* byte of its two-byte buffer.
HourMinuteTexts(time) ==
    {" " \o h \o ":" \o m :
        h \in {ToString((time % 1440) \div 60),
               ToString((time % 1440) \div 60) \o Nul},
        m \in {TwoDigits(time % 60), TwoDigits(time % 60) \o Nul}}

\* C15: the text renderer keeps the three candle-lighting states of a Torah
\* reading apart: NotApplicable writes the label and nothing after it,
\* ApplicableUnknown the label and the candle-lighting words without a time,
\* ApplicableKnown the words followed by the hour and the minute; no two
\* states give the same text after the same date and label.
C15_TriStateRendered ==
    Finished
        => /\ Len(out) = Len(printed)
           /\ \A k \in WrittenWith("NotApplicable") : AfterLabel(k) = << >>
           /\ \A k \in WrittenWith("ApplicableUnknown") :
                 AfterLabel(k) = << CandleLightingWord(out[k].language) >>
           /\ \A k \in WrittenWith("ApplicableKnown") :
                 /\ Head(AfterLabel(k)) = CandleLightingWord(out[k].language)
                 /\ ConcatText(Tail(AfterLabel(k)))
                       \in HourMinuteTexts(printed[k].candle_lighting.time)
           /\ AfterLabelTexts("NotApplicable")
                 \cap AfterLabelTexts("ApplicableUnknown") = {}
           /\ AfterLabelTexts("NotApplicable")
                 \cap AfterLabelTexts("ApplicableKnown") = {}
           /\ AfterLabelTexts("ApplicableUnknown")
                 \cap AfterLabelTexts("ApplicableKnown") = {}

\* Readings in each of the three states were written in Hebrew, one of them
\* with a time whose minute has a single digit.
C15_Witness ==
    /\ Finished
    /\ WrittenWith("NotApplicable") # {}
    /\ WrittenWith("ApplicableUnknown") # {}
    /\ \E k \in WrittenWith("ApplicableKnown") :
          /\ out[k].language = "Hebrew"
          /\ printed[k].candle_lighting.time % 60 < 10

\* The events of the seven festival days that are Yom Tov everywhere.
FirstDayIds ==
    {"RoshHashanah1", "YomKippur", "Sukkos1", "ShminiAtzeres", "Pesach1",
     "Pesach7", "Shavuos1"}

FirstDayEvents ==
    {e \in ReadingEvents :
        e.name.kind = "YomTov" /\ e.name.id \in FirstDayIds}

\* C16: a reading that is RoshHashanah1, YomKippur, Sukkos1, ShminiAtzeres,
\* Pesach1, Pesach7 or Shavuos1 is yom-tov-eligible in both locations (never
\* NotApplicable); its light_on_time is true exactly when its instant is not
\* on a Saturday: on a Saturday it is ApplicableUnknown even with a city, on
\* another weekday it is ApplicableKnown when the city's sunset is found.
C16_FirstDaysLightOnTime ==
    \A e \in FirstDayEvents :
        /\ e.candle_lighting.state # "NotApplicable"
        /\ Weekday(e.day) = Sat
              => e.candle_lighting.state = "ApplicableUnknown"
        /\ (/\ Weekday(e.day) # Sat
            /\ req.city.some
            /\ Sunset(req.city, e.day \div 24).some)
              => e.candle_lighting.state = "ApplicableKnown"

\* In Israel, with a city whose sunset is always found, one of these days
\* fell on a Saturday and was written as unknown, another was written with
\* its time.
C16_Witness ==
    /\ Finished
    /\ req.location = "Israel"
    /\ req.city.some /\ ~req.city.polar
    /\ \E e \in Range(printed) \cap FirstDayEvents :
          Weekday(e.day) = Sat /\ e.candle_lighting.state = "ApplicableUnknown"
    /\ \E e \in Range(printed) \cap FirstDayEvents :
          Weekday(e.day) # Sat /\ e.candle_lighting.state = "ApplicableKnown"

\* The reading events whose is_shabbos is false: not a weekly Parsha and
\* not on a Friday.  Their candle_lighting shows is_yom_tov alone.
WeekdayEvents ==
    {e \in ReadingEvents : e.name.kind # "Shabbos" /\ Weekday(e.day) # Fri}

C18_ShabbosEligibility ==
    \A e \in ReadingEvents :
        /\ (e.name.kind = "Shabbos" \/ Weekday(e.day) = Fri)
              => e.candle_lighting.state # "NotApplicable"
        /\ (/\ e.name.kind # "Shabbos"
            /\ Weekday(e.day) # Fri
            /\ ~IsYomTov(e, req.location))
              => e.candle_lighting.state = "NotApplicable"

\* A reading that is neither a weekly Parsha nor a festival fell on a Friday
\* and was written as an eve; another one, on another weekday, was written
\* as NotApplicable.
C18_Witness ==
    /\ Finished
    /\ \E e \in Range(printed) \cap ReadingEvents :
          /\ e.name.kind \notin {"Shabbos", "YomTov"}
          /\ Weekday(e.day) = Fri
          /\ e.candle_lighting.state # "NotApplicable"
    /\ \E e \in Range(printed) \cap ReadingEvents :
          /\ e.name.kind \notin {"Shabbos", "YomTov"}
          /\ Weekday(e.day) # Fri
          /\ e.candle_lighting.state = "NotApplicable"

\* The iteration of the day before i has run with the given cycle subscribed.
JustScanned(event) ==
    /\ Scanning
    /\ Subscribed(event)
    /\ PlusDays(i, 0 - 1) >= ScanFirstDay(that_year)

\* C19: a scanned day before the evening of 1923-09-10 has no Daf Yomi
\* entry; a day from then on and before the evening of 1975-06-23 has one
\* entry of the first cycle with offset = days since 1923-09-10 mod 2702; a
\* day from the evening of 1975-06-23 on has one entry of the second cycle
\* with offset = days since 1975-06-23 mod 2711, never one of the first.
C19_DafYomiCycleSelection ==
    JustScanned("DafYomi")
        => IF PlusDays(i, 0 - 1) < AndHms(Ymd(1923, 9, 10), 18)
           THEN DafOn(PlusDays(i, 0 - 1)) = {}
           ELSE /\ Cardinality(DafOn(PlusDays(i, 0 - 1))) = 1
                /\ \A e \in DafOn(PlusDays(i, 0 - 1)) :
                      IF e.day < AndHms(Ymd(1975, 6, 23), 18)
                      THEN /\ e.name.id = "GEMARAS_FIRST_CYCLE"
                           /\ e.name.n =
                                 ((e.day \div 24) - Ymd(1923, 9, 10)) % 2702
                      ELSE /\ e.name.id = "GEMARAS_SECOND_CYCLE"
                           /\ e.name.n =
                                 ((e.day \div 24) - Ymd(1975, 6, 23)) % 2711

\* The scan has just passed the second epoch: the day before it has an
\* entry of the first cycle, the epoch day has offset 0 of the second.
C19_Witness ==
    /\ JustScanned("DafYomi")
    /\ PlusDays(i, 0 - 1) = AndHms(Ymd(1975, 6, 23), 18)
    /\ \E e \in DafOn(PlusDays(i, 0 - 2)) : e.name.id = "GEMARAS_FIRST_CYCLE"
    /\ \E e \in DafOn(PlusDays(i, 0 - 1)) :
          e.name.id = "GEMARAS_SECOND_CYCLE" /\ e.name.n = 0

\* The Rambam entries of a kind pushed for a day, among the last two
\* iterations'.
RambamOn(day, kind) ==
    {e \in TailEntries(2 * Len(req.events.daily_study)) :
        e.name.kind = kind /\ e.day = day}

\* The entries of a kind for the day just scanned are as the length says.
RambamAsExpected(kind, length) ==
    IF PlusDays(i, 0 - 1) < AndHms(Ymd(1984, 4, 27), 18)
    THEN RambamOn(PlusDays(i, 0 - 1), kind) = {}
    ELSE /\ Cardinality(RambamOn(PlusDays(i, 0 - 1), kind)) = 1
         /\ \A e \in RambamOn(PlusDays(i, 0 - 1), kind) :
               e.name.n = ((e.day \div 24) - Ymd(1984, 4, 27)) % length

\* C20: no Rambam entry is pushed for a day before the evening of
\* 1984-04-27; from then on the one-chapter variant has offset = days since
\* that evening mod 1017 and the three-chapters variant mod 339, so the
\* epoch day has offset 0 and each day advances the offset by one modulo
\* the length.
C20_RambamOffsets ==
    /\ JustScanned("RambamOne") => RambamAsExpected("RambamOneChapters", 1017)
    /\ JustScanned("RambamThree")
          => RambamAsExpected("RambamThreeChapters", 339)

\* The scan has reached the day 339 days after the epoch: the three-chapters
\* variant is back at offset 0 after 338, the one-chapter variant is at 339.
C20_Witness ==
    /\ JustScanned("RambamOne") /\ JustScanned("RambamThree")
    /\ PlusDays(i, 0 - 1) = AndHms(Ymd(1984, 4, 27) + 339, 18)
    /\ \E e \in RambamOn(PlusDays(i, 0 - 2), "RambamThreeChapters") :
          e.name.n = 338
    /\ \E e \in RambamOn(PlusDays(i, 0 - 1), "RambamThreeChapters") :
          e.name.n = 0
    /\ \E e \in RambamOn(PlusDays(i, 0 - 1), "RambamOneChapters") :
          e.name.n = 339

\* total_yk_skipped and total_tb_skipped of a day, from the years elapsed
\* since the epoch's religious year and what has passed this year.
TotalYkSkipped(years_elapsed, yk_passed_this_year) ==
    CASE years_elapsed = 0 -> 0
      [] years_elapsed = 1 -> yk_passed_this_year
      [] OTHER -> years_elapsed - 1 + yk_passed_this_year

TotalTbSkipped(years_elapsed, tb_passed_this_year) ==
    CASE years_elapsed = 0 -> tb_passed_this_year
      [] years_elapsed = 1 -> tb_passed_this_year + 1
      [] OTHER -> years_elapsed + tb_passed_this_year

YkPassed(h) == IF h.month = "Tishrei" /\ h.day < 10 THEN 0 ELSE 1

TbPassed(d, h) == IF d < NineAvDay(h.year) THEN 0 ELSE 1

\* The offset the formula gives for day d whose religious date is h.
YerushalmiFormula(d, h) ==
    (((d \div 24) - Ymd(1980, 2, 1))
        - TotalTbSkipped(h.year - 5740, TbPassed(d, h))
        - TotalYkSkipped(h.year - 5740, YkPassed(h))) % 1554

FastDay(d, h) == (h.month = "Tishrei" /\ h.day = 10) \/ d = NineAvDay(h.year)

\* C21: a scanned day after the Yerushalmi epoch that is not a skipped fast
\* has one entry, with offset (days_since_epoch - total_tb_skipped -
\* total_yk_skipped) mod 1554, the totals chosen by years_elapsed = 0, 1 or
\* >= 2; the epoch day itself (days_since_epoch = 0) has no entry.
C21_YerushalmiOffset ==
    (JustScanned("YerushalmiYomi")
        /\ PlusDays(i, 0 - 1) >= AndHms(Ymd(1980, 2, 1), 18))
        => IF PlusDays(i, 0 - 1) = AndHms(Ymd(1980, 2, 1), 18)
           THEN LastYerushalmi = {}
           ELSE ~FastDay(PlusDays(i, 0 - 1), HebrewDateOf(PlusDays(i, 0 - 1)))
                   => /\ Cardinality(LastYerushalmi) = 1
                      /\ \A e \in LastYerushalmi :
                            e.name.n =
                               YerushalmiFormula(e.day, HebrewDateOf(e.day))

\* The scan has pushed an entry in the third religious year of the cycle
\* (years_elapsed = 2), after that year's Tisha B'Av.
C21_Witness ==
    /\ JustScanned("YerushalmiYomi")
    /\ HebrewYearOf(PlusDays(i, 0 - 1)) = 5742
    /\ PlusDays(i, 0 - 1) > NineAvDay(5742)
    /\ LastYerushalmi # {}

\* The cycle a study entry belongs to.
CycleOf(e) ==
    CASE e.name.kind = "Daf"                 -> "DafYomi"
      [] e.name.kind = "RambamOneChapters"   -> "RambamOne"
      [] e.name.kind = "RambamThreeChapters" -> "RambamThree"
      [] e.name.kind = "YerushalmiYomi"      -> "YerushalmiYomi"

\* The scan is at a day of the requested years, or one day past the last.
ScanPosition ==
    /\ i >= ToInstant(req.year, "Tishrei", 1)
    /\ i <= ToInstant(req.year + req.amnt_years, "Tishrei", 1)
    /\ (i - ToInstant(req.year, "Tishrei", 1)) % 24 = 0
    /\ (pc = "scanned" /\ req.events.daily_study # << >>)
          => i = ToInstant(req.year + req.amnt_years, "Tishrei", 1)
    /\ req.events.daily_study = << >> => return_val = << >>
    /\ return_val # << >> => return_val[Len(return_val)].day < i

\* A step that visits a day moves to the next day and pushes, for the day it
\* left, at most one entry per subscribed cycle.
ScanVisit ==
    \/ i' = i /\ return_val' = return_val
    \/ /\ i' = PlusDays(i, 1)
       /\ Len(return_val') >= Len(return_val)
       /\ SubSeq(return_val', 1, Len(return_val)) = return_val
       /\ \A k \in Len(return_val) + 1 .. Len(return_val') :
             /\ return_val'[k].day = i
             /\ Subscribed(CycleOf(return_val'[k]))
             /\ \A j \in Len(return_val) + 1 .. Len(return_val') :
                   CycleOf(return_val'[j]) = CycleOf(return_val'[k]) => j = k

\* C22: for a Hebrew request (Y, N) the scan starts at 1 Tishrei Y, moves one
\* civil day forward at every visit and returns after the day before
\* 1 Tishrei Y+N (29 Elul Y+N-1), so that every day of the range is visited
\* once, in ascending order; a visit pushes at most one entry per subscribed
\* cycle, all for the visited day; with no cycle subscribed nothing is
\* pushed.
C22_ScanVisitsEveryDayOnce == [] ScanPosition /\ [][ScanVisit]_vars

\* The scan of a two-year request has returned, with entries pushed.
C22_Witness ==
    /\ pc = "scanned"
    /\ req.amnt_years = 2
    /\ return_val # << >>
    /\ i = ToInstant(req.year + 2, "Tishrei", 1)

\* The expander output of the k-th year of the run.
ExpectedYear(k) ==
    YearEvents(that_year + k - 1, req.location, req.events, req.city)

\* C23: whatever the order in which the per-year tasks run, a task fills only
\* the slot of its own year with that year's expander output, and the merged
\* list before filtering and sorting is the slots' lists concatenated in
\* ascending year order followed by the whole study-cycle output.
C23_MergeIndependentOfSchedule ==
    /\ pc \in {"expand", "scan"}
          => \A x \in 1 .. Len(part1) :
                IF part1[x].done THEN part1[x].ret = ExpectedYear(x)
                ELSE part1[x] = Pending
    /\ pc = "scan"
          => /\ \A x \in 1 .. Len(part1) : part1[x].done
             /\ list = Flatten([x \in 1 .. Len(part1) |-> part1[x].ret])
    /\ (pc = "filter" \/ (pc = "sort" /\ req.year_type = "Hebrew"))
          => list = Flatten([x \in 1 .. Len(part1) |-> part1[x].ret])
                       \o return_val

\* Two years were expanded and the study cycles scanned: the merged list is
\* the first year's events, the second year's, then the study entries.
C23_Witness ==
    /\ pc = "sort"
    /\ req.year_type = "Hebrew"
    /\ Len(part1) = 2
    /\ part1[1].ret # << >>
    /\ part1[2].ret # << >>
    /\ part1[1].ret # part1[2].ret
    /\ return_val # << >>
    /\ list = part1[1].ret \o part1[2].ret \o return_val

FixedMinorIds ==
    {"ErevYomKippur", "ErevSukkos", "ErevPesach", "PesachSheni", "LagBaomer",
     "ErevShavuos", "ErevRoshHashanah", "Shvat15", "Av15"}

LeapMinorIds == {"PurimKattan", "ShushanPurimKattan"}

\* The places of the minor observances in a year's expander output.
MinorPlaces(ret) == {k \in 1 .. Len(ret) : ret[k].name.kind = "Minor"}

\* A year of 13 months in the 19-year cycle.
LeapInCycle(y) == ((7 * y + 1) % 19) < 7

\* C24: with the minor toggle enabled an expanded year holds each of the
\* nine fixed minor observances exactly once, and Purim Kattan and Shushan
\* Purim Kattan exactly once each if and only if the year is a leap year;
\* with the toggle disabled it holds none.
C24_MinorHolidays ==
    pc \in {"expand", "scan"}
        => \A x \in 1 .. Len(part1) :
              part1[x].done
                 => IF req.events.minor
                    THEN /\ {part1[x].ret[k].name.id :
                                k \in MinorPlaces(part1[x].ret)}
                              = FixedMinorIds \cup
                                  (IF LeapInCycle(that_year + x - 1)
                                   THEN LeapMinorIds ELSE {})
                         /\ Cardinality(MinorPlaces(part1[x].ret))
                              = 9 + (IF LeapInCycle(that_year + x - 1)
                                     THEN 2 ELSE 0)
                    ELSE MinorPlaces(part1[x].ret) = {}

\* A leap year and a common year were expanded with the minor toggle enabled.
C24_Witness ==
    /\ pc = "scan"
    /\ req.events.minor
    /\ Len(part1) = 2
    /\ Cardinality(MinorPlaces(part1[1].ret)) = 9
    /\ Cardinality(MinorPlaces(part1[2].ret)) = 11

\* The religious years whose span, from the evening before 1 Tishrei to the
\* evening before the next 1 Tishrei, meets the filter window of (year, amnt).
YearsOverlapping(year, amnt) ==
    {y \in (year + 3755) .. (year + amnt + 3765) :
        /\ ValidYear(y)
        /\ AndHms(RoshHashanahEve(y), 18) < AndHms(Ymd(year + amnt, 1, 1), 0)
        /\ AndHms(RoshHashanahEve(y + 1), 18) > AndHms(Ymd(year, 1, 1), 0)}

\* The civil days of the filter window of (year, amnt).
WindowDays(year, amnt) == Ymd(year, 1, 1) .. (Ymd(year + amnt, 1, 1) - 1)

\* C25: for a Gregorian request (Y, N) with N >= 1 that reaches the filter,
\* every religious year overlapping [Jan-1 00:00 Y, Jan-1 00:00 Y+N) has a
\* task that expanded it, the first and the last civil day of the window (so
\* every day between them) lie in the range of days the scan is called with,
\* and when Daf Yomi is subscribed (and has begun) every civil day of the
\* window has its entry before the filter.
C25_GregorianCoverage ==
    (pc = "filter" /\ req.amnt_years >= 1)
        => /\ YearsOverlapping(req.year, req.amnt_years)
                 \subseteq {that_year + x - 1 : x \in 1 .. Len(part1)}
           /\ ToInstant(that_year, "Tishrei", 1) <= AndHms(Ymd(req.year, 1, 1), 18)
           /\ AndHms(Ymd(req.year + req.amnt_years, 1, 1) - 1, 18)
                 <= ToInstant(last_year, "Elul", 29)
           /\ (Subscribed("DafYomi") /\ req.year >= 1924)
                 => {AndHms(d, 18) : d \in WindowDays(req.year, req.amnt_years)}
                       \subseteq {return_val[k].day : k \in 1 .. Len(return_val)}

\* A two-year Gregorian request with study cycles has expanded three
\* religious years, all of them overlapping the window.
C25_Witness ==
    /\ pc = "filter"
    /\ req.amnt_years = 2
    /\ Subscribed("DafYomi")
    /\ req.year >= 1924
    /\ Len(part1) = 3
    /\ Cardinality(YearsOverlapping(req.year, req.amnt_years)) = 3

\* The Yerushalmi Yomi entries pushed for the day n days before the day of
\* the iteration that has just run.
YerushalmiBack(n) ==
    {e \in TailEntries(3 * Len(req.events.daily_study)) :
        e.name.kind = "YerushalmiYomi" /\ e.day = PlusDays(i, 0 - (1 + n))}

\* C26: the offset of a Yerushalmi Yomi entry is one more, modulo 1554, than
\* the offset of the entry emitted before it, which is the entry of the day
\* before or, when that day was a skipped fast, of two days before; from the
\* third day after the epoch on there is such an earlier entry.
C26_YerushalmiAdvancesByOne ==
    JustScanned("YerushalmiYomi")
        => \A e \in LastYerushalmi :
              /\ \A p \in YerushalmiBack(1) : e.name.n = (p.name.n + 1) % 1554
              /\ YerushalmiBack(1) = {}
                    => \A p \in YerushalmiBack(2) :
                          e.name.n = (p.name.n + 1) % 1554
              /\ (/\ PlusDays(i, 0 - 3) >= ScanFirstDay(that_year)
                  /\ PlusDays(i, 0 - 3) > AndHms(Ymd(1980, 2, 1), 18))
                    => YerushalmiBack(1) \cup YerushalmiBack(2) # {}

\* The entry of 11 Tishrei 5742 (years_elapsed = 2) follows the entry of
\* 9 Tishrei across the skipped Yom Kippur.
C26_Witness ==
    /\ JustScanned("YerushalmiYomi")
    /\ HebrewDateOf(PlusDays(i, 0 - 1)).year = 5742
    /\ HebrewDateOf(PlusDays(i, 0 - 1)).month = "Tishrei"
    /\ HebrewDateOf(PlusDays(i, 0 - 1)).day = 11
    /\ LastYerushalmi # {}
    /\ YerushalmiBack(1) = {}
    /\ YerushalmiBack(2) # {}

\* How many places of s hold e.
CountIn(s, e) == Cardinality({k \in 1 .. Len(s) : s[k] = e})

\* t holds the elements of s, each as many times as s does.
IsPermutation(t, s) ==
    /\ Len(t) = Len(s)
    /\ Range(t) = Range(s)
    /\ Cardinality(Range(s)) # Len(s)
          => \A e \in Range(s) : CountIn(t, e) = CountIn(s, e)

\* The expander output followed by the calculator output, after the window
\* filter for a Gregorian request.
Generated ==
    IF req.year_type = "Gregorian"
    THEN SelectSeq(BeforeFilter,
                   LAMBDA x : /\ x.day > AndHms(Ymd(req.year, 1, 1), 0)
                              /\ x.day < AndHms(Ymd(req.year + req.amnt_years,
                                                    1, 1), 0))
    ELSE BeforeFilter

\* C27: the list handed to the renderer is a permutation of the expander
\* output followed by the calculator output (after the window filter for a
\* Gregorian request), with sorting enabled or not; with sorting disabled it
\* is that list itself.
C27_SortKeepsEvents ==
    (pc = "done" /\ result = "Ok")
        => /\ IsPermutation(printed, Generated)
           /\ req.no_sort => printed = Generated

\* A sorted run has printed a list in another order than it was generated,
\* with several events on one day.
C27_Witness ==
    /\ pc = "done"
    /\ result = "Ok"
    /\ ~req.no_sort
    /\ printed # Generated
    /\ \E k \in 1 .. Len(printed) - 1 : printed[k].day = printed[k + 1].day

\* C28: the second Daf Yomi epoch is 18914 = 7 x 2702 days after the first,
\* and when the scan crosses it the day before has one entry, of the first
\* cycle at its last offset 2701, and the epoch day has one entry, of the
\* second cycle at offset 0.
C28_DafYomiCyclesJoin ==
    /\ NumDays(first_day_of_second_cycle, first_day_of_first_cycle) = 18914
    /\ 7 * FirstCycleLength = 18914
    /\ (/\ Scanning
        /\ Subscribed("DafYomi")
        /\ PlusDays(i, 0 - 2) >= ScanFirstDay(that_year)
        /\ PlusDays(i, 0 - 1) = AndHms(Ymd(1975, 6, 23), 18))
          => /\ Cardinality(DafOn(PlusDays(i, 0 - 2))) = 1
             /\ Cardinality(DafOn(PlusDays(i, 0 - 1))) = 1
             /\ \A a \in DafOn(PlusDays(i, 0 - 2)) :
                   a.name.id = "GEMARAS_FIRST_CYCLE" /\ a.name.n = 2701
             /\ \A b \in DafOn(PlusDays(i, 0 - 1)) :
                   b.name.id = "GEMARAS_SECOND_CYCLE" /\ b.name.n = 0

\* The scan has pushed the last unit of the first cycle for 1975-06-22 and
\* the first unit of the second cycle for 1975-06-23.
C28_Witness ==
    /\ Scanning
    /\ Subscribed("DafYomi")
    /\ PlusDays(i, 0 - 1) = AndHms(Ymd(1975, 6, 23), 18)
    /\ \E a \in DafOn(AndHms(Ymd(1975, 6, 22), 18)) : a.name.n = 2701
    /\ \E b \in DafOn(AndHms(Ymd(1975, 6, 23), 18)) : b.name.n = 0

\* The entries pushed by the iteration that has just run.
LastEntries ==
    {e \in TailEntries(Len(req.events.daily_study)) :
        e.day = PlusDays(i, 0 - 1)}

\* The length of the cycle an entry belongs to.
CycleLength(e) ==
    CASE e.name.kind = "YerushalmiYomi"      -> 1554
      [] e.name.kind = "RambamOneChapters"   -> 1017
      [] e.name.kind = "RambamThreeChapters" -> 339
      [] e.name.id = "GEMARAS_FIRST_CYCLE"   -> 2702
      [] e.name.id = "GEMARAS_SECOND_CYCLE"  -> 2711

\* C29: every entry the scan pushes has an offset from 0 up to its cycle's
\* length less one (1554 for Yerushalmi Yomi, 2702 and 2711 for the two Daf
\* Yomi cycles, 1017 and 339 for the two Rambam variants), and for a day with
\* a Yerushalmi Yomi entry days_since_epoch is at least total_tb_skipped +
\* total_yk_skipped, so the unsigned subtraction does not underflow.
C29_OffsetsInRange ==
    (Scanning /\ PlusDays(i, 0 - 1) >= ScanFirstDay(that_year))
        => \A e \in LastEntries :
              /\ 0 <= e.name.n
              /\ e.name.n < CycleLength(e)
              /\ e.name.kind = "YerushalmiYomi"
                    => ((e.day \div 24) - Ymd(1980, 2, 1))
                          >= TotalTbSkipped(HebrewDateOf(e.day).year - 5740,
                                            TbPassed(e.day, HebrewDateOf(e.day)))
                             + TotalYkSkipped(HebrewDateOf(e.day).year - 5740,
                                              YkPassed(HebrewDateOf(e.day)))

\* The scan has pushed the highest Yerushalmi Yomi offset together with
\* entries of the other cycles.
C29_Witness ==
    /\ Scanning
    /\ \E e \in LastEntries : e.name.kind = "YerushalmiYomi" /\ e.name.n = 1553
    /\ \E e \in LastEntries : e.name.kind = "RambamThreeChapters"
    /\ \E e \in LastEntries : e.name.kind = "Daf"

\* The printed second festival days: the second day of Rosh Hashanah and, in
\* the Diaspora, Sukkos2, SimchasTorah, Pesach2, Pesach8 and Shavuos2.
SecondDayEvents ==
    {e \in Range(printed) :
        /\ e.name.tag = "TorahReading"
        /\ e.name.kind = "YomTov"
        /\ \/ e.name.id = "RoshHashanah2"
           \/ (req.location = "Chul"
                  /\ e.name.id \in {"Sukkos2", "SimchasTorah", "Pesach2",
                                    "Pesach8", "Shavuos2"})}

\* C30: with a city whose sunset is found, a second festival day whose
\* instant is not on a Friday is ApplicableUnknown, and one on a Friday is
\* ApplicableKnown: such a day carries a time only on a Friday; it is never
\* NotApplicable, and without a city it is ApplicableUnknown.
C30_SecondDaysKnownOnFriday ==
    \A e \in SecondDayEvents :
        /\ e.candle_lighting.state # "NotApplicable"
        /\ e.candle_lighting.state = "ApplicableKnown" => Weekday(e.day) = Fri
        /\ (req.city.some /\ Sunset(req.city, e.day \div 24).some)
              => e.candle_lighting.state
                    = (IF Weekday(e.day) = Fri THEN "ApplicableKnown"
                       ELSE "ApplicableUnknown")

\* In the Diaspora, with a city whose sunset is always found, a second day
\* of Rosh Hashanah off Friday was written as unknown and a second day of
\* Shavuos or eighth day of Pesach on a Friday with its time.
C30_Witness ==
    /\ Finished
    /\ req.location = "Chul"
    /\ req.city.some /\ ~req.city.polar
    /\ \E e \in SecondDayEvents :
          /\ e.name.id = "RoshHashanah2"
          /\ Weekday(e.day) # Fri
          /\ e.candle_lighting.state = "ApplicableUnknown"
    /\ \E e \in SecondDayEvents :
          /\ e.name.id \in {"Pesach8", "Shavuos2"}
          /\ Weekday(e.day) = Fri
          /\ e.candle_lighting.state = "ApplicableKnown"

=============================================================================
